---- MODULE Spec2Model ----
(***************************************************************************)
(* The policy-enforcing channel signer of rust-lightning                   *)
(* (lightning/src/util/test_channel_signer.rs): TestChannelSigner wraps an *)
(* InMemorySigner and checks every call against the four downward         *)
(* counters of the EnforcementState its handles share.                     *)
(*                                                                         *)
(* A call has one of three results: "Ok" and "Err" are the two variants of *)
(* the Result the method returns, "Fault" is a panic (assert!, panic!,     *)
(* unwrap or expect).  The model lets calls go on after a fault (a caught  *)
(* panic, or another thread holding a handle) and takes the lock to be     *)
(* usable afterwards; a run that stops at its first panic, or whose mutex  *)
(* is poisoned by it so that every later call faults, moves the counters   *)
(* through a prefix of what is explored here.  SpecConcurrent has the same *)
(* methods called from two threads, with the mutex and its poisoning.      *)
(*                                                                         *)
(* The second part is the commitment transaction builder                   *)
(* (lightning/src/sign/tx_builder.rs): its functions are pure, and each is *)
(* applied to arguments drawn from small sets.                             *)
(***************************************************************************)
EXTENDS Integers, FiniteSets, Sequences, TLC

\* How many steps below the initial value the commitment numbers go that the
\* holder-side methods are called with when the two signing methods are among
\* the calls, ...
MaxHolderSteps == 2

\* ... when only validate_holder_commitment and release_commitment_secret are, ...
MaxRevocations == 8

\* ... and that the counterparty-side methods are called with.
MaxCounterpartySteps == 3

\* How many signer operations are disabled at the same time.
MaxDisabled == 1

\* pub const INITIAL_REVOKED_COMMITMENT_NUMBER: u64 = 1 << 48.  The guards only
\* compare commitment numbers and subtract 1 or 2 from a counter, so the model
\* counts down from 1 << 4: TLC's integers are 32 bits wide, and no counter of
\* the model comes within 2 of zero, where the u64 subtraction would underflow.
INITIAL_REVOKED_COMMITMENT_NUMBER == 2^4

\* The commitment numbers the calls are made with: from one above the initial
\* value (a number no counter ever had) down to `steps` below it.
NumbersDownTo(steps) ==
    (INITIAL_REVOKED_COMMITMENT_NUMBER - steps) .. (INITIAL_REVOKED_COMMITMENT_NUMBER + 1)

HolderNumbers == NumbersDownTo(MaxHolderSteps)

RevocationNumbers == NumbersDownTo(MaxRevocations)

CounterpartyNumbers == NumbersDownTo(MaxCounterpartySteps)

\* enum SignerOp
SignerOp ==
    { "GetPerCommitmentPoint", "ReleaseCommitmentSecret", "ValidateHolderCommitment",
      "SignCounterpartyCommitment", "ValidateCounterpartyRevocation",
      "SignHolderCommitment", "SignJusticeRevokedOutput", "SignJusticeRevokedHtlc",
      "SignHolderHtlcTransaction", "SignCounterpartyHtlcTransaction",
      "SignClosingTransaction", "SignHolderAnchorInput",
      "SignChannelAnnouncementWithFundingKey" }

\* The results of a call of the wrapped InMemorySigner: every method the wrapper
\* delegates to returns a Result.
InnerResults == {"Ok", "Err"}

VARIABLES
    state,          \* the EnforcementState behind Arc<Mutex<..>>, shared by all handles
    call,           \* the last call: method, handle, commitment number, result, state at entry
    holder_signed,  \* the commitment numbers sign_holder_commitment and
                    \* sign_holder_htlc_transaction signed, less those above
                    \* last_holder_revoked_commitment (no call can release them again)
    args,           \* the call of the transaction builder: the function and its arguments
    ret,            \* what that call returned, "pending" before it is made
    threads,        \* each thread's call in progress: the method, its number, its position
    mutex,          \* the Mutex around the EnforcementState: "free", the thread holding
                    \* it, or "poisoned"
    serial          \* the state the calls made so far leave when made one after the other

signer_vars == <<state, call, holder_signed, args, ret, threads, mutex, serial>>
vars == <<state, call, holder_signed>>

\* EnforcementState::new
EnforcementState_new ==
    [ last_counterparty_commitment         |-> INITIAL_REVOKED_COMMITMENT_NUMBER,
      last_counterparty_revoked_commitment |-> INITIAL_REVOKED_COMMITMENT_NUMBER,
      last_holder_revoked_commitment       |-> INITIAL_REVOKED_COMMITMENT_NUMBER,
      last_holder_commitment               |-> INITIAL_REVOKED_COMMITMENT_NUMBER,
      disabled_signer_ops                  |-> {} ]

\* TestChannelSigner::new: a fresh state, the revocation policy check on.
TestChannelSigner_new == [disable_revocation_policy_check |-> FALSE]

\* TestChannelSigner::new_with_revoked: a handle on the existing state.
TestChannelSigner_new_with_revoked(disable_revocation_policy_check) ==
    [disable_revocation_policy_check |-> disable_revocation_policy_check]

\* TestChannelSigner::is_signer_available
is_signer_available(st, signer_op) == signer_op \notin st.disabled_signer_ops

\* The handles on the one EnforcementState: the signer built by new, and one
\* built by new_with_revoked around the same state with the policy check off
\* (a clone of either behaves as the handle it was cloned from).
handles == {TestChannelSigner_new, TestChannelSigner_new_with_revoked(TRUE)}

\* What a method hands back when it returns or panics before it reaches the
\* wrapped signer: its result and the state it leaves, ...
Ret(result, st) == [result |-> result, state |-> st, inner_called |-> FALSE]

\* ... and when it has called the wrapped signer (self.inner).
RetInner(result, st) == [result |-> result, state |-> st, inner_called |-> TRUE]

cmp_min(a, b) == IF a <= b THEN a ELSE b

(***************************************************************************)
(* The guards of the counter-reading methods, one per assert! or panic!.   *)
(***************************************************************************)

\* Mutants of the guards and methods below: each is the guard or method with
\* one plausible slip, used to show that a property depends on the code.

\* accepts the number above the last revoked one again
revoke_current_or_next_or_previous(st, idx) ==
    \/ idx = st.last_holder_revoked_commitment
    \/ idx = st.last_holder_revoked_commitment - 1
    \/ idx = st.last_holder_revoked_commitment + 1

\* >= for >
revoke_not_below_last_holder_commitment(st, idx) == idx >= st.last_holder_commitment

\* accepts the number after the next
validate_holder_up_to_two_ahead(st, idx) ==
    idx <= st.last_holder_commitment /\ idx >= st.last_holder_commitment - 2

\* accepts the number after the next
validate_revocation_up_to_two_ahead(st, idx) ==
    idx <= st.last_counterparty_revoked_commitment
        /\ idx >= st.last_counterparty_revoked_commitment - 2

\* the window starts at the last revoked number instead of below it
sign_holder_policy_off_by_one(self, st, commitment_number) ==
    ~ ( /\ st.last_holder_revoked_commitment # commitment_number
        /\ st.last_holder_revoked_commitment - 1 # commitment_number
        /\ ~self.disable_revocation_policy_check )

\* accepts the number after the next
sign_counterparty_up_to_two_ahead(st, actual_commitment_number) ==
    actual_commitment_number <= st.last_counterparty_commitment
        /\ actual_commitment_number >= st.last_counterparty_commitment - 2

\* - 3 for - 2
sign_counterparty_within_three(st, actual_commitment_number) ==
    actual_commitment_number >= st.last_counterparty_revoked_commitment - 3

\* release_commitment_secret, first assert!: the current or next revocation.
revoke_current_or_next(st, idx) ==
    idx = st.last_holder_revoked_commitment \/ idx = st.last_holder_revoked_commitment - 1

\* release_commitment_secret, second assert!: never the last holder commitment.
revoke_not_last_holder_commitment(st, idx) == idx > st.last_holder_commitment

\* validate_holder_commitment, assert!
validate_current_or_next_holder(st, idx) ==
    idx = st.last_holder_commitment \/ idx = st.last_holder_commitment - 1

\* validate_counterparty_revocation, assert!
validate_current_or_next_revocation(st, idx) ==
    idx = st.last_counterparty_revoked_commitment
        \/ idx = st.last_counterparty_revoked_commitment - 1

\* sign_holder_commitment / sign_holder_htlc_transaction: the condition under
\* which panic! is reached, negated: commitment_number is one of the next two
\* unrevoked numbers, or the handle has the policy check switched off.
sign_holder_policy(self, st, commitment_number) ==
    ~ ( /\ st.last_holder_revoked_commitment - 1 # commitment_number
        /\ st.last_holder_revoked_commitment - 2 # commitment_number
        /\ ~self.disable_revocation_policy_check )

\* sign_counterparty_commitment, first assert!: the same as the last or the next.
sign_counterparty_same_or_next(st, actual_commitment_number) ==
    st.last_counterparty_commitment = actual_commitment_number
        \/ st.last_counterparty_commitment - 1 = actual_commitment_number

\* sign_counterparty_commitment, second assert!: at most two broadcastable.
sign_counterparty_within_two(st, actual_commitment_number) ==
    actual_commitment_number >= st.last_counterparty_revoked_commitment - 2

(***************************************************************************)
(* The methods.  self is the handle, st the EnforcementState at entry,     *)
(* inner the result of the wrapped signer's method, verifies whether the   *)
(* transaction handed in passes the checks made on it.                     *)
(***************************************************************************)

\* ChannelSigner::get_per_commitment_point
get_per_commitment_point(self, st, inner) ==
    IF ~is_signer_available(st, "GetPerCommitmentPoint") THEN Ret("Err", st)
    ELSE RetInner(inner, st)

\* release_commitment_secret without its second assert!
release_commitment_secret_one_assert(self, st, idx, inner) ==
    IF ~is_signer_available(st, "ReleaseCommitmentSecret") THEN Ret("Err", st)
    ELSE IF ~(idx = st.last_holder_revoked_commitment
                \/ idx = st.last_holder_revoked_commitment - 1) THEN Ret("Fault", st)
    ELSE RetInner(inner, [st EXCEPT !.last_holder_revoked_commitment = idx])

\* ChannelSigner::release_commitment_secret
release_commitment_secret(self, st, idx, inner) ==
    IF ~is_signer_available(st, "ReleaseCommitmentSecret") THEN Ret("Err", st)
    ELSE IF ~revoke_current_or_next(st, idx) THEN Ret("Fault", st)
    ELSE IF ~revoke_not_last_holder_commitment(st, idx) THEN Ret("Fault", st)
    ELSE RetInner(inner, [st EXCEPT !.last_holder_revoked_commitment = idx])

\* ChannelSigner::validate_holder_commitment (idx = holder_tx.commitment_number())
validate_holder_commitment(self, st, idx) ==
    IF ~validate_current_or_next_holder(st, idx) THEN Ret("Fault", st)
    ELSE Ret("Ok", [st EXCEPT !.last_holder_commitment = idx])

\* validate_counterparty_revocation with the assignment moved above its assert!
validate_counterparty_revocation_assign_first(self, st, idx) ==
    IF ~is_signer_available(st, "ValidateCounterpartyRevocation") THEN Ret("Err", st)
    ELSE IF ~(idx = st.last_counterparty_revoked_commitment
                \/ idx = st.last_counterparty_revoked_commitment - 1)
        THEN Ret("Fault", [st EXCEPT !.last_counterparty_revoked_commitment = idx])
    ELSE Ret("Ok", [st EXCEPT !.last_counterparty_revoked_commitment = idx])

\* ChannelSigner::validate_counterparty_revocation
validate_counterparty_revocation(self, st, idx) ==
    IF ~is_signer_available(st, "ValidateCounterpartyRevocation") THEN Ret("Err", st)
    ELSE IF ~validate_current_or_next_revocation(st, idx) THEN Ret("Fault", st)
    ELSE Ret("Ok", [st EXCEPT !.last_counterparty_revoked_commitment = idx])

\* ChannelSigner::punish_revokeable_output
punish_revokeable_output(self, st, inner) ==
    IF ~is_signer_available(st, "SignJusticeRevokedOutput") THEN Ret("Err", st)
    ELSE RetInner(inner, st)

\* ChannelSigner::punish_htlc_output
punish_htlc_output(self, st, inner) ==
    IF ~is_signer_available(st, "SignJusticeRevokedHtlc") THEN Ret("Err", st)
    ELSE RetInner(inner, st)

\* ChannelSigner::sweep_counterparty_offered_htlc_output
sweep_counterparty_offered_htlc_output(self, st, inner) ==
    IF ~is_signer_available(st, "SignCounterpartyHtlcTransaction") THEN Ret("Err", st)
    ELSE RetInner(inner, st)

\* ChannelSigner::sweep_counterparty_received_htlc_output
sweep_counterparty_received_htlc_output(self, st, inner) ==
    IF ~is_signer_available(st, "SignCounterpartyHtlcTransaction") THEN Ret("Err", st)
    ELSE RetInner(inner, st)

\* ChannelSigner::sign_holder_commitment.  verify_holder_commitment_tx runs
\* after the availability check and before the lock; the inner result is unwrapped.
sign_holder_commitment(self, st, commitment_number, verifies, inner) ==
    IF ~is_signer_available(st, "SignHolderCommitment") THEN Ret("Err", st)
    ELSE IF ~verifies THEN Ret("Fault", st)
    ELSE IF ~sign_holder_policy(self, st, commitment_number) THEN Ret("Fault", st)
    ELSE IF inner = "Err" THEN RetInner("Fault", st)
    ELSE RetInner("Ok", st)

\* ChannelSigner::unsafe_sign_holder_commitment: no check at all.
unsafe_sign_holder_commitment(self, st, commitment_number, inner) ==
    IF inner = "Err" THEN RetInner("Fault", st) ELSE RetInner("Ok", st)

\* ChannelSigner::sign_holder_htlc_transaction.  The policy check comes first,
\* then the assert_eq! on input and output and the check of the counterparty's
\* signature (verifies); the inner result is unwrapped.
sign_holder_htlc_transaction(self, st, per_commitment_number, verifies, inner) ==
    IF ~is_signer_available(st, "SignHolderHtlcTransaction") THEN Ret("Err", st)
    ELSE IF ~sign_holder_policy(self, st, per_commitment_number) THEN Ret("Fault", st)
    ELSE IF ~verifies THEN Ret("Fault", st)
    ELSE IF inner = "Err" THEN RetInner("Fault", st)
    ELSE RetInner("Ok", st)

\* sign_counterparty_commitment without its second assert!
sign_counterparty_commitment_one_assert(self, st, actual_commitment_number, verifies, inner) ==
    IF ~verifies THEN Ret("Fault", st)
    ELSE IF ~is_signer_available(st, "SignCounterpartyCommitment") THEN Ret("Err", st)
    ELSE IF ~sign_counterparty_same_or_next(st, actual_commitment_number)
        THEN Ret("Fault", st)
    ELSE LET updated == [st EXCEPT !.last_counterparty_commitment =
                            cmp_min(st.last_counterparty_commitment, actual_commitment_number)]
         IN  IF inner = "Err" THEN RetInner("Fault", updated) ELSE RetInner("Ok", updated)

\* EcdsaChannelSigner::sign_counterparty_commitment.
\* verify_counterparty_commitment_tx runs first, before the availability check;
\* the counter is assigned before the inner signer is called and unwrapped.
sign_counterparty_commitment(self, st, actual_commitment_number, verifies, inner) ==
    IF ~verifies THEN Ret("Fault", st)
    ELSE IF ~is_signer_available(st, "SignCounterpartyCommitment") THEN Ret("Err", st)
    ELSE IF ~sign_counterparty_same_or_next(st, actual_commitment_number)
        THEN Ret("Fault", st)
    ELSE IF ~sign_counterparty_within_two(st, actual_commitment_number)
        THEN Ret("Fault", st)
    ELSE LET updated == [st EXCEPT !.last_counterparty_commitment =
                            cmp_min(st.last_counterparty_commitment, actual_commitment_number)]
         IN  IF inner = "Err" THEN RetInner("Fault", updated) ELSE RetInner("Ok", updated)

\* EcdsaChannelSigner::sign_justice_revoked_output
sign_justice_revoked_output(self, st, inner) ==
    IF ~is_signer_available(st, "SignJusticeRevokedOutput") THEN Ret("Err", st)
    ELSE IF inner = "Err" THEN RetInner("Fault", st) ELSE RetInner("Ok", st)

\* EcdsaChannelSigner::sign_justice_revoked_htlc
sign_justice_revoked_htlc(self, st, inner) ==
    IF ~is_signer_available(st, "SignJusticeRevokedHtlc") THEN Ret("Err", st)
    ELSE IF inner = "Err" THEN RetInner("Fault", st) ELSE RetInner("Ok", st)

\* EcdsaChannelSigner::sign_counterparty_htlc_transaction
sign_counterparty_htlc_transaction(self, st, inner) ==
    IF ~is_signer_available(st, "SignCounterpartyHtlcTransaction") THEN Ret("Err", st)
    ELSE IF inner = "Err" THEN RetInner("Fault", st) ELSE RetInner("Ok", st)

\* EcdsaChannelSigner::sign_closing_transaction (verifies: closing_tx.verify)
sign_closing_transaction(self, st, verifies, inner) ==
    IF ~is_signer_available(st, "SignClosingTransaction") THEN Ret("Err", st)
    ELSE IF ~verifies THEN Ret("Fault", st)
    ELSE IF inner = "Err" THEN RetInner("Fault", st) ELSE RetInner("Ok", st)

\* EcdsaChannelSigner::sign_holder_anchor_input.  The assert! on the anchor's
\* vout (verifies) comes before the availability check.
sign_holder_anchor_input(self, st, verifies, inner) ==
    IF ~verifies THEN Ret("Fault", st)
    ELSE IF ~is_signer_available(st, "SignHolderAnchorInput") THEN Ret("Err", st)
    ELSE RetInner(inner, st)

\* EcdsaChannelSigner::sign_channel_announcement_with_funding_key: no check.
sign_channel_announcement_with_funding_key(self, st, inner) == RetInner(inner, st)

\* EcdsaChannelSigner::sign_splicing_funding_input: no check.
sign_splicing_funding_input(self, st, inner) == RetInner(inner, st)

\* TestChannelSigner::disable_op
disable_op(st, signer_op) ==
    [st EXCEPT !.disabled_signer_ops = st.disabled_signer_ops \cup {signer_op}]

\* TestChannelSigner::enable_op
enable_op(st, signer_op) ==
    [st EXCEPT !.disabled_signer_ops = st.disabled_signer_ops \ {signer_op}]

NoCall == [method |-> "none", self |-> TestChannelSigner_new, idx |-> 0,
           result |-> "Ok", inner_called |-> FALSE, pre |-> EnforcementState_new]

\* No call of the transaction builder, and nothing returned.
NoArgs == [fn |-> "none"]

NoRet == [result |-> "none"]

\* No thread but the caller.
NoThreads == <<>>

NoSerial == [state |-> EnforcementState_new, ok |-> TRUE]

Init ==
    /\ state = EnforcementState_new
    /\ call = NoCall
    /\ holder_signed = {}
    /\ args = NoArgs
    /\ ret = NoRet
    /\ threads = NoThreads
    /\ mutex = "free"
    /\ serial = NoSerial

(***************************************************************************)
(* The actions: one per method.  Each is the whole call: the state the     *)
(* method leaves, the record of the call, and, for the two methods that    *)
(* sign a holder commitment, the commitment number signed.                 *)
(***************************************************************************)

\* A call of `method` through handle `self` that returned r.
Invoke(method, self, idx, r, signs_holder) ==
    /\ state' = r.state
    /\ call' = [method |-> method, self |-> self, idx |-> idx,
                result |-> r.result, inner_called |-> r.inner_called, pre |-> state]
    /\ holder_signed' =
          { i \in IF signs_holder /\ r.result = "Ok"
                  THEN holder_signed \cup {idx} ELSE holder_signed :
              i <= r.state.last_holder_revoked_commitment }
    /\ UNCHANGED <<args, ret, threads, mutex, serial>>

\* The two test-only switches are calls through a handle too; they take the
\* lock and change nothing but disabled_signer_ops.
DisableOp(self, signer_op) ==
    /\ Cardinality(disable_op(state, signer_op).disabled_signer_ops) <= MaxDisabled
    /\ Invoke("disable_op", self, 0, Ret("Ok", disable_op(state, signer_op)), FALSE)

EnableOp(self, signer_op) ==
    Invoke("enable_op", self, 0, Ret("Ok", enable_op(state, signer_op)), FALSE)

GetPerCommitmentPoint(self, inner) ==
    Invoke("get_per_commitment_point", self, 0,
           get_per_commitment_point(self, state, inner), FALSE)

ReleaseCommitmentSecret(self, idx, inner) ==
    Invoke("release_commitment_secret", self, idx,
           release_commitment_secret(self, state, idx, inner), FALSE)

ValidateHolderCommitment(self, idx) ==
    Invoke("validate_holder_commitment", self, idx,
           validate_holder_commitment(self, state, idx), FALSE)

ValidateCounterpartyRevocation(self, idx) ==
    Invoke("validate_counterparty_revocation", self, idx,
           validate_counterparty_revocation(self, state, idx), FALSE)

PunishRevokeableOutput(self, inner) ==
    Invoke("punish_revokeable_output", self, 0,
           punish_revokeable_output(self, state, inner), FALSE)

PunishHtlcOutput(self, inner) ==
    Invoke("punish_htlc_output", self, 0, punish_htlc_output(self, state, inner), FALSE)

SweepCounterpartyOfferedHtlcOutput(self, inner) ==
    Invoke("sweep_counterparty_offered_htlc_output", self, 0,
           sweep_counterparty_offered_htlc_output(self, state, inner), FALSE)

SweepCounterpartyReceivedHtlcOutput(self, inner) ==
    Invoke("sweep_counterparty_received_htlc_output", self, 0,
           sweep_counterparty_received_htlc_output(self, state, inner), FALSE)

SignHolderCommitment(self, commitment_number, verifies, inner) ==
    Invoke("sign_holder_commitment", self, commitment_number,
           sign_holder_commitment(self, state, commitment_number, verifies, inner), TRUE)

UnsafeSignHolderCommitment(self, commitment_number, inner) ==
    Invoke("unsafe_sign_holder_commitment", self, commitment_number,
           unsafe_sign_holder_commitment(self, state, commitment_number, inner), FALSE)

SignHolderHtlcTransaction(self, per_commitment_number, verifies, inner) ==
    Invoke("sign_holder_htlc_transaction", self, per_commitment_number,
           sign_holder_htlc_transaction(self, state, per_commitment_number, verifies, inner),
           TRUE)

SignCounterpartyCommitment(self, actual_commitment_number, verifies, inner) ==
    Invoke("sign_counterparty_commitment", self, actual_commitment_number,
           sign_counterparty_commitment(self, state, actual_commitment_number, verifies, inner),
           FALSE)

SignJusticeRevokedOutput(self, inner) ==
    Invoke("sign_justice_revoked_output", self, 0,
           sign_justice_revoked_output(self, state, inner), FALSE)

SignJusticeRevokedHtlc(self, inner) ==
    Invoke("sign_justice_revoked_htlc", self, 0,
           sign_justice_revoked_htlc(self, state, inner), FALSE)

SignCounterpartyHtlcTransaction(self, inner) ==
    Invoke("sign_counterparty_htlc_transaction", self, 0,
           sign_counterparty_htlc_transaction(self, state, inner), FALSE)

SignClosingTransaction(self, verifies, inner) ==
    Invoke("sign_closing_transaction", self, 0,
           sign_closing_transaction(self, state, verifies, inner), FALSE)

SignHolderAnchorInput(self, verifies, inner) ==
    Invoke("sign_holder_anchor_input", self, 0,
           sign_holder_anchor_input(self, state, verifies, inner), FALSE)

SignChannelAnnouncementWithFundingKey(self, inner) ==
    Invoke("sign_channel_announcement_with_funding_key", self, 0,
           sign_channel_announcement_with_funding_key(self, state, inner), FALSE)

SignSplicingFundingInput(self, inner) ==
    Invoke("sign_splicing_funding_input", self, 0,
           sign_splicing_funding_input(self, state, inner), FALSE)

(***************************************************************************)
(* The specifications.  CallsOn(hs) is every method and both test switches *)
(* called through the handles hs; Spec is all of it.  The others take the  *)
(* same actions for a part of the signer: the methods that read or write   *)
(* the counters a property is about, with the switches of those methods.   *)
(***************************************************************************)

\* The SignerOps checked (or, for ValidateHolderCommitment, named after) the
\* two methods that write the holder-side counters, ...
RevocationOps == {"ValidateHolderCommitment", "ReleaseCommitmentSecret"}

\* ... the methods that read them, ...
HolderOps == RevocationOps \cup {"SignHolderCommitment", "SignHolderHtlcTransaction"}

\* ... and the methods on the counterparty-side counters.
CounterpartyOps == {"SignCounterpartyCommitment", "ValidateCounterpartyRevocation"}

CallsOn(hs) ==
    \/ \E self \in hs, op \in SignerOp : DisableOp(self, op)
    \/ \E self \in hs, op \in SignerOp : EnableOp(self, op)
    \/ \E self \in hs, inner \in InnerResults : GetPerCommitmentPoint(self, inner)
    \/ \E self \in hs, idx \in HolderNumbers, inner \in InnerResults :
          ReleaseCommitmentSecret(self, idx, inner)
    \/ \E self \in hs, idx \in HolderNumbers : ValidateHolderCommitment(self, idx)
    \/ \E self \in hs, idx \in CounterpartyNumbers :
          ValidateCounterpartyRevocation(self, idx)
    \/ \E self \in hs, inner \in InnerResults : PunishRevokeableOutput(self, inner)
    \/ \E self \in hs, inner \in InnerResults : PunishHtlcOutput(self, inner)
    \/ \E self \in hs, inner \in InnerResults :
          SweepCounterpartyOfferedHtlcOutput(self, inner)
    \/ \E self \in hs, inner \in InnerResults :
          SweepCounterpartyReceivedHtlcOutput(self, inner)
    \/ \E self \in hs, idx \in HolderNumbers, v \in BOOLEAN, inner \in InnerResults :
          SignHolderCommitment(self, idx, v, inner)
    \/ \E self \in hs, idx \in HolderNumbers, inner \in InnerResults :
          UnsafeSignHolderCommitment(self, idx, inner)
    \/ \E self \in hs, idx \in HolderNumbers, v \in BOOLEAN, inner \in InnerResults :
          SignHolderHtlcTransaction(self, idx, v, inner)
    \/ \E self \in hs, idx \in CounterpartyNumbers, v \in BOOLEAN, inner \in InnerResults :
          SignCounterpartyCommitment(self, idx, v, inner)
    \/ \E self \in hs, inner \in InnerResults : SignJusticeRevokedOutput(self, inner)
    \/ \E self \in hs, inner \in InnerResults : SignJusticeRevokedHtlc(self, inner)
    \/ \E self \in hs, inner \in InnerResults :
          SignCounterpartyHtlcTransaction(self, inner)
    \/ \E self \in hs, v \in BOOLEAN, inner \in InnerResults :
          SignClosingTransaction(self, v, inner)
    \/ \E self \in hs, v \in BOOLEAN, inner \in InnerResults :
          SignHolderAnchorInput(self, v, inner)
    \/ \E self \in hs, inner \in InnerResults :
          SignChannelAnnouncementWithFundingKey(self, inner)
    \/ \E self \in hs, inner \in InnerResults : SignSplicingFundingInput(self, inner)

Next == CallsOn(handles)

Spec == Init /\ [][Next]_vars

\* Every method and both switches, called through the signer built by new.
NextKillSwitch == CallsOn({TestChannelSigner_new})

SpecKillSwitch == Init /\ [][NextKillSwitch]_vars

\* The two methods that write the holder-side counters, through every handle.
NextRevocation ==
    \/ \E self \in handles, op \in RevocationOps : DisableOp(self, op)
    \/ \E self \in handles, op \in RevocationOps : EnableOp(self, op)
    \/ \E self \in handles, idx \in RevocationNumbers : ValidateHolderCommitment(self, idx)
    \/ \E self \in handles, idx \in RevocationNumbers, inner \in InnerResults :
          ReleaseCommitmentSecret(self, idx, inner)

SpecRevocation == Init /\ [][NextRevocation]_vars

\* The methods that read or write the holder-side counters, through the handles hs.
HolderCallsOn(hs) ==
    \/ \E self \in hs, op \in HolderOps : DisableOp(self, op)
    \/ \E self \in hs, op \in HolderOps : EnableOp(self, op)
    \/ \E self \in hs, idx \in HolderNumbers : ValidateHolderCommitment(self, idx)
    \/ \E self \in hs, idx \in HolderNumbers, inner \in InnerResults :
          ReleaseCommitmentSecret(self, idx, inner)
    \/ \E self \in hs, idx \in HolderNumbers, v \in BOOLEAN, inner \in InnerResults :
          SignHolderCommitment(self, idx, v, inner)
    \/ \E self \in hs, idx \in HolderNumbers, inner \in InnerResults :
          UnsafeSignHolderCommitment(self, idx, inner)
    \/ \E self \in hs, idx \in HolderNumbers, v \in BOOLEAN, inner \in InnerResults :
          SignHolderHtlcTransaction(self, idx, v, inner)

\* ... through every handle, ...
NextHolder == HolderCallsOn(handles)

SpecHolder == Init /\ [][NextHolder]_vars

\* ... and through the signer built by new alone, which has the policy check on.
NextHolderEnforced == HolderCallsOn({TestChannelSigner_new})

SpecHolderEnforced == Init /\ [][NextHolderEnforced]_vars

\* The methods that read or write the counterparty-side counters.
NextCounterparty ==
    \/ \E self \in handles, op \in CounterpartyOps : DisableOp(self, op)
    \/ \E self \in handles, op \in CounterpartyOps : EnableOp(self, op)
    \/ \E self \in handles, idx \in CounterpartyNumbers :
          ValidateCounterpartyRevocation(self, idx)
    \/ \E self \in handles, idx \in CounterpartyNumbers, v \in BOOLEAN, inner \in InnerResults :
          SignCounterpartyCommitment(self, idx, v, inner)

SpecCounterparty == Init /\ [][NextCounterparty]_vars

\* The four methods that write a counter, through every handle.
NextCounters ==
    \/ \E self \in handles, op \in RevocationOps \cup CounterpartyOps : DisableOp(self, op)
    \/ \E self \in handles, op \in RevocationOps \cup CounterpartyOps : EnableOp(self, op)
    \/ \E self \in handles, idx \in HolderNumbers : ValidateHolderCommitment(self, idx)
    \/ \E self \in handles, idx \in HolderNumbers, inner \in InnerResults :
          ReleaseCommitmentSecret(self, idx, inner)
    \/ \E self \in handles, idx \in CounterpartyNumbers :
          ValidateCounterpartyRevocation(self, idx)
    \/ \E self \in handles, idx \in CounterpartyNumbers, v \in BOOLEAN, inner \in InnerResults :
          SignCounterpartyCommitment(self, idx, v, inner)

SpecCounters == Init /\ [][NextCounters]_vars

\* The six methods that check a commitment number against the counters.  The
\* holder-side methods read and write the two holder-side counters only and
\* the counterparty-side methods the other two, so the calls of one side are
\* followed while the counters of the other side are where new left them.
NextGuards ==
    \/ /\ state.last_counterparty_commitment = INITIAL_REVOKED_COMMITMENT_NUMBER
       /\ state.last_counterparty_revoked_commitment = INITIAL_REVOKED_COMMITMENT_NUMBER
       /\ NextHolder
    \/ /\ state.last_holder_commitment = INITIAL_REVOKED_COMMITMENT_NUMBER
       /\ state.last_holder_revoked_commitment = INITIAL_REVOKED_COMMITMENT_NUMBER
       /\ holder_signed = {}
       /\ NextCounterparty

SpecGuards == Init /\ [][NextGuards]_vars

(***************************************************************************)
(* The signer called from several threads.  Each thread has a handle on    *)
(* the one EnforcementState; a call takes the mutex (self.state.lock()),   *)
(* evaluates its assert!s on the state behind it, assigns the counter and  *)
(* drops the guard, one step each, so that the steps of the threads        *)
(* interleave wherever the mutex lets them.  A panic under the lock        *)
(* poisons the mutex, and every later lock().unwrap() panics.              *)
(* `serial` is the state reached by the same calls made one after the      *)
(* other, in the order in which they evaluate their assert!s and assign.   *)
(* No operation is disabled here, and the lock that is_signer_available    *)
(* takes and drops before the call proper is left out.                     *)
(***************************************************************************)

\* The calls made in all, by all threads.
MaxConcurrentCalls == 3

Threads == {"t1", "t2"}

\* The handle of each thread: the signer and one built by new_with_revoked
\* around the same state.
HandleOf(t) ==
    IF t = "t1" THEN TestChannelSigner_new ELSE TestChannelSigner_new_with_revoked(TRUE)

\* The methods that take the lock and read or assign a counter.
LockingMethods ==
    { "release_commitment_secret", "validate_holder_commitment",
      "validate_counterparty_revocation", "sign_counterparty_commitment",
      "sign_holder_commitment" }

\* The counter a method is about.
CounterOf(method, st) ==
    CASE method = "release_commitment_secret" -> st.last_holder_revoked_commitment
      [] method = "validate_holder_commitment" -> st.last_holder_commitment
      [] method = "validate_counterparty_revocation" ->
            st.last_counterparty_revoked_commitment
      [] method = "sign_counterparty_commitment" -> st.last_counterparty_commitment
      [] method = "sign_holder_commitment" -> st.last_holder_revoked_commitment - 1

\* The assert!s (and the panic!) a method evaluates under the lock.
LockedGuard(method, self, st, idx) ==
    CASE method = "release_commitment_secret" ->
            revoke_current_or_next(st, idx) /\ revoke_not_last_holder_commitment(st, idx)
      [] method = "validate_holder_commitment" -> validate_current_or_next_holder(st, idx)
      [] method = "validate_counterparty_revocation" ->
            validate_current_or_next_revocation(st, idx)
      [] method = "sign_counterparty_commitment" ->
            sign_counterparty_same_or_next(st, idx) /\ sign_counterparty_within_two(st, idx)
      [] method = "sign_holder_commitment" -> sign_holder_policy(self, st, idx)

\* The assignment a method makes under the lock; last_commitment_number is the
\* local sign_counterparty_commitment reads before its assert!s.
LockedUpdate(method, st, idx, last_commitment_number) ==
    CASE method = "release_commitment_secret" ->
            [st EXCEPT !.last_holder_revoked_commitment = idx]
      [] method = "validate_holder_commitment" -> [st EXCEPT !.last_holder_commitment = idx]
      [] method = "validate_counterparty_revocation" ->
            [st EXCEPT !.last_counterparty_revoked_commitment = idx]
      [] method = "sign_counterparty_commitment" ->
            [st EXCEPT !.last_counterparty_commitment = cmp_min(last_commitment_number, idx)]
      [] method = "sign_holder_commitment" -> st

\* The same call made alone: the method as a whole, its transaction passing
\* the checks made on it and the wrapped signer signing.
SequentialCall(method, self, st, idx) ==
    CASE method = "release_commitment_secret" -> release_commitment_secret(self, st, idx, "Ok")
      [] method = "validate_holder_commitment" -> validate_holder_commitment(self, st, idx)
      [] method = "validate_counterparty_revocation" ->
            validate_counterparty_revocation(self, st, idx)
      [] method = "sign_counterparty_commitment" ->
            sign_counterparty_commitment(self, st, idx, TRUE, "Ok")
      [] method = "sign_holder_commitment" -> sign_holder_commitment(self, st, idx, TRUE, "Ok")

\* Mutant of the definition below: a lock that is handed out while it is held.
lock_acquired_while_held(m) == TRUE

\* Mutex::lock returns once no thread holds the mutex.
lock_acquired(m) == m = "free"

\* A thread between two calls, with the result of its last call.
Idle(result, calls) ==
    [pc |-> "idle", method |-> "none", idx |-> 0, last_commitment_number |-> 0,
     result |-> result, calls |-> calls]

InitConcurrent ==
    /\ state = EnforcementState_new
    /\ call = NoCall
    /\ holder_signed = {}
    /\ args = NoArgs
    /\ ret = NoRet
    /\ threads = [t \in Threads |-> Idle("none", 0)]
    /\ mutex = "free"
    /\ serial = NoSerial

\* A thread calls a method, for the number its counter is at or the next one.
Begin(t, method, idx) ==
    /\ threads[t].pc = "idle"
    /\ threads["t1"].calls + threads["t2"].calls < MaxConcurrentCalls
    /\ threads' = [threads EXCEPT ![t] =
                      [pc |-> "lock", method |-> method, idx |-> idx,
                       last_commitment_number |-> 0, result |-> "none",
                       calls |-> threads[t].calls + 1]]
    /\ UNCHANGED <<state, call, holder_signed, args, ret, mutex, serial>>

\* self.state.lock().unwrap(): the thread waits for the mutex and takes it ...
Lock(t) ==
    /\ threads[t].pc = "lock"
    /\ mutex # "poisoned"
    /\ lock_acquired(mutex)
    /\ mutex' = t
    /\ threads' = [threads EXCEPT ![t].pc = "locked"]
    /\ UNCHANGED <<state, call, holder_signed, args, ret, serial>>

\* ... or finds it poisoned and panics.
LockPoisoned(t) ==
    /\ threads[t].pc = "lock"
    /\ mutex = "poisoned"
    /\ threads' = [threads EXCEPT ![t] = Idle("Fault", threads[t].calls)]
    /\ UNCHANGED <<state, call, holder_signed, args, ret, mutex, serial>>

\* The assert!s pass on the state behind the lock ...
Check(t) ==
    /\ threads[t].pc = "locked"
    /\ LockedGuard(threads[t].method, HandleOf(t), state, threads[t].idx)
    /\ threads' = [threads EXCEPT ![t].pc = "checked",
                                  ![t].last_commitment_number =
                                        state.last_counterparty_commitment]
    /\ UNCHANGED <<state, call, holder_signed, args, ret, mutex, serial>>

\* ... or one fails: the thread panics with the guard, which poisons the mutex.
CheckFails(t) ==
    /\ threads[t].pc = "locked"
    /\ ~LockedGuard(threads[t].method, HandleOf(t), state, threads[t].idx)
    /\ threads' = [threads EXCEPT ![t] = Idle("Fault", threads[t].calls)]
    /\ mutex' = "poisoned"
    /\ serial' = [serial EXCEPT !.ok =
                      /\ serial.ok
                      /\ SequentialCall(threads[t].method, HandleOf(t), serial.state,
                                        threads[t].idx).result = "Fault"]
    /\ UNCHANGED <<state, call, holder_signed, args, ret>>

\* The assignment of the counter.
Assign(t) ==
    /\ threads[t].pc = "checked"
    /\ state' = LockedUpdate(threads[t].method, state, threads[t].idx,
                             threads[t].last_commitment_number)
    /\ threads' = [threads EXCEPT ![t].pc = "assigned"]
    /\ LET r == SequentialCall(threads[t].method, HandleOf(t), serial.state, threads[t].idx)
       IN  serial' = [state |-> r.state, ok |-> serial.ok /\ r.result = "Ok"]
    /\ UNCHANGED <<call, holder_signed, args, ret, mutex>>

\* The guard is dropped and the call returns.
Unlock(t) ==
    /\ threads[t].pc = "assigned"
    /\ mutex' = "free"
    /\ threads' = [threads EXCEPT ![t] = Idle("Ok", threads[t].calls)]
    /\ UNCHANGED <<state, call, holder_signed, args, ret, serial>>

NextConcurrent ==
    \E t \in Threads :
        \/ \E method \in LockingMethods :
              \E idx \in {CounterOf(method, state), CounterOf(method, state) - 1} :
                  Begin(t, method, idx)
        \/ Lock(t)
        \/ LockPoisoned(t)
        \/ Check(t)
        \/ CheckFails(t)
        \/ Assign(t)
        \/ Unlock(t)

SpecConcurrent == InitConcurrent /\ [][NextConcurrent]_vars

(***************************************************************************)
(* The transaction builder (lightning/src/sign/tx_builder.rs).  Its        *)
(* functions are pure: `args` is the call that is made (the function and   *)
(* its arguments) and `ret` what it returned, "pending" before the call.   *)
(* Amounts are u64 in the code; the arguments drawn stay far from 2^64, so *)
(* that no addition or multiplication of the code wraps, and the checked   *)
(* and saturating subtractions are written out.                            *)
(***************************************************************************)

\* ChannelTypeFeatures, by the two feature bits the builder asks for: neither
\* (static_remote_key only), anchors_zero_fee_htlc_tx, anchor_zero_fee_commitments.
ChannelTypeFeatures ==
    { [anchors_zero_fee_htlc_tx |-> FALSE, anchor_zero_fee_commitments |-> FALSE],
      [anchors_zero_fee_htlc_tx |-> TRUE, anchor_zero_fee_commitments |-> FALSE],
      [anchors_zero_fee_htlc_tx |-> FALSE, anchor_zero_fee_commitments |-> TRUE] }

supports_anchors_zero_fee_htlc_tx(channel_type) == channel_type.anchors_zero_fee_htlc_tx

supports_anchor_zero_fee_commitments(channel_type) == channel_type.anchor_zero_fee_commitments

\* ln::channel::ANCHOR_OUTPUT_VALUE_SATOSHI
ANCHOR_OUTPUT_VALUE_SATOSHI == 330

\* ln::chan_utils: the weights of the two second-stage HTLC transactions ...
htlc_timeout_tx_weight(channel_type) ==
    IF supports_anchors_zero_fee_htlc_tx(channel_type) THEN 666 ELSE 663

htlc_success_tx_weight(channel_type) ==
    IF supports_anchors_zero_fee_htlc_tx(channel_type) THEN 706 ELSE 703

\* ... and of the commitment transaction without HTLC outputs and per HTLC output.
commitment_tx_base_weight(channel_type) ==
    IF supports_anchors_zero_fee_htlc_tx(channel_type) THEN 1124 ELSE 724

COMMITMENT_TX_WEIGHT_PER_HTLC == 172

\* ln::chan_utils::commit_tx_fee_sat: the weight of the base transaction plus
\* num_htlcs HTLC outputs, at the feerate, rounded down.
commit_tx_fee_sat(feerate_per_kw, num_htlcs, channel_type) ==
    (feerate_per_kw
        * (commitment_tx_base_weight(channel_type) + num_htlcs * COMMITMENT_TX_WEIGHT_PER_HTLC))
      \div 1000

\* The channel type carries zero-fee HTLC transactions.
zero_fee_htlc_transactions(channel_type) ==
    \/ supports_anchors_zero_fee_htlc_tx(channel_type)
    \/ supports_anchor_zero_fee_commitments(channel_type)

\* ln::chan_utils::second_stage_tx_fees_sat: the fees of the HTLC-success and
\* the HTLC-timeout transaction, 0 with zero-fee HTLC transactions.
second_stage_tx_fees_sat(channel_type, feerate_per_kw) ==
    IF zero_fee_htlc_transactions(channel_type)
    THEN [success_tx_fee_sat |-> 0, timeout_tx_fee_sat |-> 0]
    ELSE [success_tx_fee_sat |->
              (feerate_per_kw * htlc_success_tx_weight(channel_type)) \div 1000,
          timeout_tx_fee_sat |->
              (feerate_per_kw * htlc_timeout_tx_weight(channel_type)) \div 1000]

\* ln::chan_utils::htlc_tx_fees_sat: the second-stage fees of all non-dust HTLCs.
htlc_tx_fees_sat(feerate_per_kw, num_accepted_htlcs, num_offered_htlcs, channel_type) ==
    LET fees == second_stage_tx_fees_sat(channel_type, feerate_per_kw)
    IN  num_accepted_htlcs * fees.success_tx_fee_sat
          + num_offered_htlcs * fees.timeout_tx_fee_sat

\* u32::MAX, at the width of the model's integers
u32_MAX == 2147483647

\* The sum of the amounts of a sequence of HTLCs.
RECURSIVE SumAmounts(_)
SumAmounts(htlcs) ==
    IF htlcs = <<>> THEN 0 ELSE Head(htlcs).amount_msat + SumAmounts(Tail(htlcs))

\* u64::checked_sub: the difference, or None
checked_sub(a, b) == IF a >= b THEN [some |-> TRUE, v |-> a - b] ELSE [some |-> FALSE]

\* u64::saturating_sub
saturating_sub(a, b) == IF a >= b THEN a - b ELSE 0

cmp_max(a, b) == IF a >= b THEN a ELSE b

\* Mutant of the definition below: the two second-stage fees the wrong way round
HTLCAmountDirection_is_dust_fees_swapped(self, local, feerate_per_kw, broadcaster_dust_limit_satoshis, channel_type) ==
    LET fees == second_stage_tx_fees_sat(channel_type, feerate_per_kw)
        htlc_tx_fee_sat == IF self.outbound # local THEN fees.timeout_tx_fee_sat
                           ELSE fees.success_tx_fee_sat
    IN  self.amount_msat \div 1000 < broadcaster_dust_limit_satoshis + htlc_tx_fee_sat

\* HTLCAmountDirection::is_dust
HTLCAmountDirection_is_dust(self, local, feerate_per_kw, broadcaster_dust_limit_satoshis, channel_type) ==
    LET fees == second_stage_tx_fees_sat(channel_type, feerate_per_kw)
        htlc_tx_fee_sat == IF self.outbound = local THEN fees.timeout_tx_fee_sat
                           ELSE fees.success_tx_fee_sat
    IN  self.amount_msat \div 1000 < broadcaster_dust_limit_satoshis + htlc_tx_fee_sat

\* NextCommitmentStats::get_holder_counterparty_balances_incl_fee_msat
get_holder_counterparty_balances_incl_fee_msat(self) ==
    IF self.is_outbound_from_holder
    THEN LET holder == checked_sub(self.holder_balance_before_fee_msat,
                                   self.commit_tx_fee_sat * 1000)
         IN  IF ~holder.some THEN [result |-> "Err"]
             ELSE [result |-> "Ok", holder_msat |-> holder.v,
                   counterparty_msat |-> self.counterparty_balance_before_fee_msat]
    ELSE LET counterparty == checked_sub(self.counterparty_balance_before_fee_msat,
                                         self.commit_tx_fee_sat * 1000)
         IN  IF ~counterparty.some THEN [result |-> "Err"]
             ELSE [result |-> "Ok", holder_msat |-> self.holder_balance_before_fee_msat,
                   counterparty_msat |-> counterparty.v]

\* commit_plus_htlc_tx_fees_msat
commit_plus_htlc_tx_fees_msat(local, next_commitment_htlcs, dust_buffer_feerate, feerate, broadcaster_dust_limit_satoshis, channel_type) ==
    LET nondust(htlc) == ~HTLCAmountDirection_is_dust(htlc, local, dust_buffer_feerate,
                                broadcaster_dust_limit_satoshis, channel_type)
        accepted(htlc) == htlc.outbound # local /\ nondust(htlc)
        offered(htlc) == htlc.outbound = local /\ nondust(htlc)
        accepted_nondust_htlcs == Len(SelectSeq(next_commitment_htlcs, accepted))
        offered_nondust_htlcs == Len(SelectSeq(next_commitment_htlcs, offered))
        commitment_fee_sat ==
            commit_tx_fee_sat(feerate, accepted_nondust_htlcs + offered_nondust_htlcs,
                              channel_type)
        second_stage_fees_sat ==
            htlc_tx_fees_sat(feerate, accepted_nondust_htlcs, offered_nondust_htlcs,
                             channel_type)
        extra_accepted_htlc_commitment_fee_sat ==
            commit_tx_fee_sat(feerate, accepted_nondust_htlcs + 1 + offered_nondust_htlcs,
                              channel_type)
        extra_accepted_htlc_second_stage_fees_sat ==
            htlc_tx_fees_sat(feerate, accepted_nondust_htlcs + 1, offered_nondust_htlcs,
                             channel_type)
    IN  [total_fees_msat |-> (commitment_fee_sat + second_stage_fees_sat) * 1000,
         extra_accepted_htlc_total_fees_msat |->
            (extra_accepted_htlc_commitment_fee_sat
                + extra_accepted_htlc_second_stage_fees_sat) * 1000]

\* subtract_addl_outputs: the two anchors come off the funder's balance, with a
\* checked subtraction.
subtract_addl_outputs(is_outbound_from_holder, value_to_self_after_htlcs_msat, value_to_remote_after_htlcs_msat, channel_type) ==
    LET total_anchors_sat == IF supports_anchors_zero_fee_htlc_tx(channel_type)
                             THEN ANCHOR_OUTPUT_VALUE_SATOSHI * 2 ELSE 0
        self == checked_sub(value_to_self_after_htlcs_msat, total_anchors_sat * 1000)
        remote == checked_sub(value_to_remote_after_htlcs_msat, total_anchors_sat * 1000)
    IN  IF is_outbound_from_holder
        THEN IF ~self.some THEN [result |-> "Err"]
             ELSE [result |-> "Ok", self_msat |-> self.v,
                   remote_msat |-> value_to_remote_after_htlcs_msat]
        ELSE IF ~remote.some THEN [result |-> "Err"]
             ELSE [result |-> "Ok", self_msat |-> value_to_self_after_htlcs_msat,
                   remote_msat |-> remote.v]

\* Mutant of the definition below: no buffer, the feerate as it is.
get_dust_buffer_feerate_no_buffer(feerate_per_kw) == feerate_per_kw

\* Mutant of the definition below: the quarter of the feerate is left out.
get_dust_buffer_feerate_without_quarter(feerate_per_kw) ==
    IF feerate_per_kw > u32_MAX - 2530 THEN u32_MAX ELSE feerate_per_kw + 2530

\* get_dust_buffer_feerate
get_dust_buffer_feerate(feerate_per_kw) ==
    LET feerate_plus_quarter ==
            IF feerate_per_kw > u32_MAX \div 1250 THEN u32_MAX
            ELSE (feerate_per_kw * 1250) \div 1000
        plus_2530 == IF feerate_per_kw > u32_MAX - 2530 THEN u32_MAX
                     ELSE feerate_per_kw + 2530
    IN  cmp_max(plus_2530, feerate_plus_quarter)

\* The excess of the feerate over the feerate that limits the dust exposure:
\* feerate_per_kw.saturating_sub(dust_exposure_limiting_feerate.unwrap_or(feerate_per_kw));
\* None is [some |-> FALSE].
excess_feerate_of(feerate_per_kw, dust_exposure_limiting_feerate) ==
    saturating_sub(feerate_per_kw,
                   IF dust_exposure_limiting_feerate.some
                   THEN dust_exposure_limiting_feerate.v ELSE feerate_per_kw)

\* Mutant of the definition below: the fee is charged for the HTLCs of the
\* commitment alone.
fee_htlc_count_without_addl(nondust_htlc_count, addl_nondust_htlc_count) ==
    nondust_htlc_count

\* Mutant of the definition below: the additional HTLCs taken off the count.
fee_htlc_count_less_addl(nondust_htlc_count, addl_nondust_htlc_count) ==
    saturating_sub(nondust_htlc_count, addl_nondust_htlc_count)

\* The number of HTLC outputs get_next_commitment_stats charges the fee for.
fee_htlc_count(nondust_htlc_count, addl_nondust_htlc_count) ==
    nondust_htlc_count + addl_nondust_htlc_count

\* SpecTxBuilder::commit_tx_fee_sat
SpecTxBuilder_commit_tx_fee_sat(feerate_per_kw, nondust_htlc_count, channel_type) ==
    commit_tx_fee_sat(feerate_per_kw, nondust_htlc_count, channel_type)

\* SpecTxBuilder::get_next_commitment_stats.  "Fault" is a debug_assert_eq!
\* that fails, "Err" the Err(()) of a checked subtraction.
get_next_commitment_stats(local, is_outbound_from_holder, channel_value_satoshis, value_to_holder_msat, next_commitment_htlcs, addl_nondust_htlc_count, feerate_per_kw, dust_exposure_limiting_feerate, broadcaster_dust_limit_satoshis, channel_type) ==
    LET excess_feerate == excess_feerate_of(feerate_per_kw, dust_exposure_limiting_feerate)
        inbound(htlc) == ~htlc.outbound
        outbound(htlc) == htlc.outbound
        inbound_htlcs_count == Len(SelectSeq(next_commitment_htlcs, inbound))
        value_to_counterparty_msat ==
            checked_sub(channel_value_satoshis * 1000, value_to_holder_msat)
        outbound_htlcs_value_msat == SumAmounts(SelectSeq(next_commitment_htlcs, outbound))
        inbound_htlcs_value_msat == SumAmounts(SelectSeq(next_commitment_htlcs, inbound))
        value_to_holder_after_htlcs_msat ==
            checked_sub(value_to_holder_msat, outbound_htlcs_value_msat)
        value_to_counterparty_after_htlcs_msat ==
            checked_sub(value_to_counterparty_msat.v, inbound_htlcs_value_msat)
        before_fee ==
            subtract_addl_outputs(is_outbound_from_holder, value_to_holder_after_htlcs_msat.v,
                                  value_to_counterparty_after_htlcs_msat.v, channel_type)
        dust_buffer_feerate == get_dust_buffer_feerate(feerate_per_kw)
        nondust(htlc) == ~HTLCAmountDirection_is_dust(htlc, local, feerate_per_kw,
                                broadcaster_dust_limit_satoshis, channel_type)
        nondust_htlc_count == Len(SelectSeq(next_commitment_htlcs, nondust))
        fee_sat == commit_tx_fee_sat(feerate_per_kw,
                        fee_htlc_count(nondust_htlc_count, addl_nondust_htlc_count),
                        channel_type)
        buffer_dust(htlc) == HTLCAmountDirection_is_dust(htlc, local, dust_buffer_feerate,
                                broadcaster_dust_limit_satoshis, channel_type)
        dust_exposure_msat == SumAmounts(SelectSeq(next_commitment_htlcs, buffer_dust))
        excess_fees == commit_plus_htlc_tx_fees_msat(local, next_commitment_htlcs,
                            dust_buffer_feerate, excess_feerate,
                            broadcaster_dust_limit_satoshis, channel_type)
    IN  IF /\ supports_anchor_zero_fee_commitments(channel_type)
           /\ (feerate_per_kw # 0 \/ excess_feerate # 0)
            THEN [result |-> "Fault"]
        ELSE IF ~value_to_counterparty_msat.some THEN [result |-> "Err"]
        ELSE IF ~value_to_holder_after_htlcs_msat.some THEN [result |-> "Err"]
        ELSE IF ~value_to_counterparty_after_htlcs_msat.some THEN [result |-> "Err"]
        ELSE IF before_fee.result = "Err" THEN [result |-> "Err"]
        ELSE [result |-> "Ok",
              is_outbound_from_holder |-> is_outbound_from_holder,
              inbound_htlcs_count |-> inbound_htlcs_count,
              inbound_htlcs_value_msat |-> inbound_htlcs_value_msat,
              holder_balance_before_fee_msat |-> before_fee.self_msat,
              counterparty_balance_before_fee_msat |-> before_fee.remote_msat,
              nondust_htlc_count |-> nondust_htlc_count + addl_nondust_htlc_count,
              commit_tx_fee_sat |-> fee_sat,
              dust_exposure_msat |->
                  IF local THEN dust_exposure_msat
                  ELSE dust_exposure_msat + excess_fees.total_fees_msat,
              extra_accepted_htlc_dust_exposure_msat |->
                  IF local THEN dust_exposure_msat
                  ELSE dust_exposure_msat + excess_fees.extra_accepted_htlc_total_fees_msat]

\* Mutant of the definition below: the comparison the other way round
is_dust_above_threshold(offered, amount_msat, feerate_per_kw, broadcaster_dust_limit_satoshis, channel_type) ==
    LET htlc_tx_fee_sat ==
            IF supports_anchors_zero_fee_htlc_tx(channel_type) THEN 0
            ELSE LET htlc_tx_weight == IF offered THEN htlc_timeout_tx_weight(channel_type)
                                      ELSE htlc_success_tx_weight(channel_type)
                 IN  (feerate_per_kw * htlc_tx_weight) \div 1000
    IN  amount_msat \div 1000 > broadcaster_dust_limit_satoshis + htlc_tx_fee_sat

\* Mutant of the definition below: an HTLC of exactly the threshold is dust too
is_dust_at_threshold(offered, amount_msat, feerate_per_kw, broadcaster_dust_limit_satoshis, channel_type) ==
    LET htlc_tx_fee_sat ==
            IF supports_anchors_zero_fee_htlc_tx(channel_type) THEN 0
            ELSE LET htlc_tx_weight == IF offered THEN htlc_timeout_tx_weight(channel_type)
                                      ELSE htlc_success_tx_weight(channel_type)
                 IN  (feerate_per_kw * htlc_tx_weight) \div 1000
    IN  amount_msat \div 1000 <= broadcaster_dust_limit_satoshis + htlc_tx_fee_sat

\* The closure is_dust of build_commitment_transaction, with what it captures
\* (feerate_per_kw, broadcaster_dust_limit_satoshis, channel_type) as arguments.
is_dust(offered, amount_msat, feerate_per_kw, broadcaster_dust_limit_satoshis, channel_type) ==
    LET htlc_tx_fee_sat ==
            IF supports_anchors_zero_fee_htlc_tx(channel_type) THEN 0
            ELSE LET htlc_tx_weight == IF offered THEN htlc_timeout_tx_weight(channel_type)
                                      ELSE htlc_success_tx_weight(channel_type)
                 IN  (feerate_per_kw * htlc_tx_weight) \div 1000
    IN  amount_msat \div 1000 < broadcaster_dust_limit_satoshis + htlc_tx_fee_sat

\* The two main outputs once the small ones are zeroed.  Mutant of the
\* definition below: the output of the countersignatory left as it is.
trim_main_outputs_broadcaster_only(to_broadcaster_value_sat, to_countersignatory_value_sat, broadcaster_dust_limit_satoshis) ==
    [to_broadcaster_value_sat |->
        IF to_broadcaster_value_sat >= broadcaster_dust_limit_satoshis
        THEN to_broadcaster_value_sat ELSE 0,
     to_countersignatory_value_sat |-> to_countersignatory_value_sat]

\* build_commitment_transaction: both main outputs are compared with the dust
\* limit of the broadcaster and set to 0 below it.
trim_main_outputs(to_broadcaster_value_sat, to_countersignatory_value_sat, broadcaster_dust_limit_satoshis) ==
    [to_broadcaster_value_sat |->
        IF to_broadcaster_value_sat >= broadcaster_dust_limit_satoshis
        THEN to_broadcaster_value_sat ELSE 0,
     to_countersignatory_value_sat |->
        IF to_countersignatory_value_sat >= broadcaster_dust_limit_satoshis
        THEN to_countersignatory_value_sat ELSE 0]

\* Mutant of the definition below: the fee comes off the balance of the holder,
\* whoever funds the channel.
subtract_commit_tx_fee_from_holder(is_outbound_from_holder, local_balance_before_fee_msat, remote_balance_before_fee_msat, fee_sat) ==
    [value_to_self |-> saturating_sub(local_balance_before_fee_msat \div 1000, fee_sat),
     value_to_remote |-> remote_balance_before_fee_msat \div 1000]

\* build_commitment_transaction: the fee comes off the balance of the funder,
\* with a saturating subtraction.
subtract_commit_tx_fee(is_outbound_from_holder, local_balance_before_fee_msat, remote_balance_before_fee_msat, fee_sat) ==
    IF is_outbound_from_holder
    THEN [value_to_self |-> saturating_sub(local_balance_before_fee_msat \div 1000, fee_sat),
          value_to_remote |-> remote_balance_before_fee_msat \div 1000]
    ELSE [value_to_self |-> local_balance_before_fee_msat \div 1000,
          value_to_remote |->
              saturating_sub(remote_balance_before_fee_msat \div 1000, fee_sat)]

\* Mutants of the definition below.

\* the subtractions saturate at 0
balances_after_htlcs_saturating(channel_value_satoshis, value_to_self_msat, local_htlc_total_msat, remote_htlc_total_msat) ==
    [result |-> "Ok",
     self_msat |-> saturating_sub(value_to_self_msat, local_htlc_total_msat),
     remote_msat |->
        saturating_sub(saturating_sub(channel_value_satoshis * 1000, value_to_self_msat),
                       remote_htlc_total_msat)]

\* the HTLCs of the counterparty are not taken off its balance
balances_after_htlcs_remote_untouched(channel_value_satoshis, value_to_self_msat, local_htlc_total_msat, remote_htlc_total_msat) ==
    LET self == checked_sub(value_to_self_msat, local_htlc_total_msat)
        remote == checked_sub(channel_value_satoshis * 1000, value_to_self_msat)
    IN  IF ~self.some \/ ~remote.some THEN [result |-> "Fault"]
        ELSE [result |-> "Ok", self_msat |-> self.v, remote_msat |-> remote.v]

\* Mutant of the definition below: the HTLCs the holder offered are not taken
\* off its balance.
balances_after_htlcs_holder_untouched(channel_value_satoshis, value_to_self_msat, local_htlc_total_msat, remote_htlc_total_msat) ==
    LET remote == checked_sub(channel_value_satoshis * 1000, value_to_self_msat)
        remote_after == checked_sub(remote.v, remote_htlc_total_msat)
    IN  IF ~remote.some THEN [result |-> "Fault"]
        ELSE IF ~remote_after.some THEN [result |-> "Fault"]
        ELSE [result |-> "Ok", self_msat |-> value_to_self_msat,
              remote_msat |-> remote_after.v]

\* build_commitment_transaction: the balances after the HTLCs, each checked_sub
\* unwrapped.
balances_after_htlcs(channel_value_satoshis, value_to_self_msat, local_htlc_total_msat, remote_htlc_total_msat) ==
    LET self == checked_sub(value_to_self_msat, local_htlc_total_msat)
        remote == checked_sub(channel_value_satoshis * 1000, value_to_self_msat)
        remote_after == checked_sub(remote.v, remote_htlc_total_msat)
    IN  IF ~self.some THEN [result |-> "Fault"]
        ELSE IF ~remote.some THEN [result |-> "Fault"]
        ELSE IF ~remote_after.some THEN [result |-> "Fault"]
        ELSE [result |-> "Ok", self_msat |-> self.v, remote_msat |-> remote_after.v]

\* Mutant of the definition below: no HTLC is trimmed.
trim_dust_htlcs_none_trimmed(htlcs_in_tx, feerate_per_kw, broadcaster_dust_limit_satoshis, channel_type) ==
    htlcs_in_tx

\* build_commitment_transaction: htlcs_in_tx.retain(..) keeps, in their order,
\* the HTLCs the closure is_dust does not call dust.
trim_dust_htlcs(htlcs_in_tx, feerate_per_kw, broadcaster_dust_limit_satoshis, channel_type) ==
    LET retained(htlc) == ~is_dust(htlc.offered, htlc.amount_msat, feerate_per_kw,
                                   broadcaster_dust_limit_satoshis, channel_type)
    IN  SelectSeq(htlcs_in_tx, retained)

\* CommitmentTransaction::new, by what it is given.
CommitmentTransaction_new(to_broadcaster_value_sat, to_countersignatory_value_sat, feerate_per_kw, htlcs) ==
    [to_broadcaster_value_sat |-> to_broadcaster_value_sat,
     to_countersignatory_value_sat |-> to_countersignatory_value_sat,
     feerate_per_kw |-> feerate_per_kw,
     nondust_htlcs |-> htlcs]

\* SpecTxBuilder::build_commitment_transaction.  "Fault" is an unwrap of None
\* or of Err; value_to_self and value_to_remote are the two locals of that
\* name, kept with the result.
build_commitment_transaction(local, channel_parameters, value_to_self_msat, htlcs_in_tx, feerate_per_kw, broadcaster_dust_limit_satoshis) ==
    LET channel_type == channel_parameters.channel_type_features
        outbound(htlc) == htlc.offered = local
        inbound(htlc) == htlc.offered # local
        local_htlc_total_msat == SumAmounts(SelectSeq(htlcs_in_tx, outbound))
        remote_htlc_total_msat == SumAmounts(SelectSeq(htlcs_in_tx, inbound))
        htlcs == trim_dust_htlcs(htlcs_in_tx, feerate_per_kw,
                                 broadcaster_dust_limit_satoshis, channel_type)
        fee_sat == SpecTxBuilder_commit_tx_fee_sat(feerate_per_kw, Len(htlcs), channel_type)
        after_htlcs == balances_after_htlcs(channel_parameters.channel_value_satoshis,
                            value_to_self_msat, local_htlc_total_msat, remote_htlc_total_msat)
        before_fee == subtract_addl_outputs(channel_parameters.is_outbound_from_holder,
                            after_htlcs.self_msat, after_htlcs.remote_msat, channel_type)
        values == subtract_commit_tx_fee(channel_parameters.is_outbound_from_holder,
                            before_fee.self_msat, before_fee.remote_msat, fee_sat)
        to_broadcaster_value_sat == IF local THEN values.value_to_self
                                    ELSE values.value_to_remote
        to_countersignatory_value_sat == IF local THEN values.value_to_remote
                                         ELSE values.value_to_self
        outputs == trim_main_outputs(to_broadcaster_value_sat, to_countersignatory_value_sat,
                                     broadcaster_dust_limit_satoshis)
    IN  IF after_htlcs.result = "Fault" THEN [result |-> "Fault"]
        ELSE IF before_fee.result = "Err" THEN [result |-> "Fault"]
        ELSE [result |-> "Ok",
              tx |-> CommitmentTransaction_new(outputs.to_broadcaster_value_sat,
                        outputs.to_countersignatory_value_sat, feerate_per_kw, htlcs),
              stats |-> [commit_tx_fee_sat |-> fee_sat,
                         local_balance_before_fee_msat |-> before_fee.self_msat,
                         remote_balance_before_fee_msat |-> before_fee.remote_msat],
              value_to_self |-> values.value_to_self,
              value_to_remote |-> values.value_to_remote]

(***************************************************************************)
(* The calls of the transaction builder.  A behaviour is one call: Init    *)
(* draws the function and its arguments, the action applies the function   *)
(* and keeps what it returned.  A channel with zero-fee commitments has a  *)
(* feerate of 0 (get_next_commitment_stats asserts it); the other channel  *)
(* types take the feerates of Feerates.                                    *)
(***************************************************************************)

\* The longest list of HTLCs handed to the builder.
MaxHtlcs == 2

\* The most HTLCs get_next_commitment_stats is asked to add.
MaxAddlHtlcs == 2

\* The sequences over S of length up to n.
SeqsUpTo(S, n) == UNION { [1..k -> S] : k \in 0..n }

DustLimits == {354, 546}

Feerates == {253, 2500}

FeeratesOf(channel_type) ==
    IF supports_anchor_zero_fee_commitments(channel_type) THEN {0} ELSE Feerates

ChannelValues == {5000}

\* value_to_self_msat and value_to_holder_msat: nothing, less than the two
\* anchors, half the channel, all but less than the two anchors, all of the
\* channel, and more than the channel holds.
BalancesMsat == {0, 500000, 2500000, 4600000, 5000000, 5000001}

\* HTLC amounts around the dust thresholds: below every dust limit, dust or
\* not by the direction at feerate 253, and the same at feerate 2500.
HtlcAmountsMsat == {353999, 525000, 2050999}

\* The amounts is_dust is asked about: those around every threshold
\* (dust limit plus second-stage fee) of DustLimits and Feerates.
ThresholdsSat == {354, 521, 531, 546, 713, 723, 2011, 2111, 2203, 2303}

DustAmountsMsat ==
    {0, 1, 5000000}
      \cup { t * 1000 - 1 : t \in ThresholdsSat }
      \cup { t * 1000 : t \in ThresholdsSat }
      \cup { t * 1000 + 999 : t \in ThresholdsSat }

None == [some |-> FALSE]

Some(v) == [some |-> TRUE, v |-> v]

Pending == [result |-> "pending"]

\* args is a call of HTLCAmountDirection::is_dust(&self, local, feerate_per_kw,
\* broadcaster_dust_limit_satoshis, channel_type) for one of the amounts.
HTLCAmountDirectionIsDustArgs(amounts) ==
    \E o \in BOOLEAN, a \in amounts, l \in BOOLEAN, f \in Feerates \cup {0},
       d \in DustLimits, t \in ChannelTypeFeatures :
        args = [fn |-> "HTLCAmountDirection::is_dust",
                self |-> [outbound |-> o, amount_msat |-> a],
                local |-> l, feerate_per_kw |-> f,
                broadcaster_dust_limit_satoshis |-> d, channel_type |-> t]

\* args is a call of the closure is_dust(offered, amount_msat) of
\* build_commitment_transaction, in a build with the feerate, dust limit and
\* channel type given.
IsDustArgs(amounts) ==
    \E t \in ChannelTypeFeatures :
        \E o \in BOOLEAN, a \in amounts, f \in FeeratesOf(t), d \in DustLimits :
            args = [fn |-> "is_dust", offered |-> o, amount_msat |-> a,
                    feerate_per_kw |-> f, broadcaster_dust_limit_satoshis |-> d,
                    channel_type |-> t]

\* args is a call of SpecTxBuilder::commit_tx_fee_sat(feerate_per_kw,
\* nondust_htlc_count, channel_type).
CommitTxFeeSatArgs(max_htlcs) ==
    \E t \in ChannelTypeFeatures :
        \E f \in FeeratesOf(t), n \in 0..max_htlcs :
            args = [fn |-> "commit_tx_fee_sat", feerate_per_kw |-> f,
                    nondust_htlc_count |-> n, channel_type |-> t]

\* args is a call of SpecTxBuilder::get_next_commitment_stats.
GetNextCommitmentStatsArgs(max_htlcs, max_addl) ==
    \E t \in ChannelTypeFeatures :
        \E l \in BOOLEAN, o \in BOOLEAN, c \in ChannelValues,
           v \in BalancesMsat \ {0, 2500000},
           h \in SeqsUpTo([outbound : BOOLEAN, amount_msat : {353999, 2050999}], max_htlcs),
           n \in 0..max_addl, f \in FeeratesOf(t), e \in {None, Some(253)} :
            args = [fn |-> "get_next_commitment_stats", local |-> l,
                    is_outbound_from_holder |-> o, channel_value_satoshis |-> c,
                    value_to_holder_msat |-> v, next_commitment_htlcs |-> h,
                    addl_nondust_htlc_count |-> n, feerate_per_kw |-> f,
                    dust_exposure_limiting_feerate |-> e,
                    broadcaster_dust_limit_satoshis |-> 354, channel_type |-> t]

\* args is a call of SpecTxBuilder::build_commitment_transaction, with the
\* arguments the balances depend on.  countersignatory_dust_limit_satoshis is
\* the dust limit of the other party of the channel; the builder is not handed it.
BuildCommitmentTransactionArgs(max_htlcs) ==
    \E t \in ChannelTypeFeatures :
        \E l \in BOOLEAN, o \in BOOLEAN, c \in ChannelValues, v \in BalancesMsat,
           h \in SeqsUpTo([offered : BOOLEAN, amount_msat : HtlcAmountsMsat], max_htlcs),
           f \in FeeratesOf(t), d \in DustLimits, cd \in DustLimits :
            args = [fn |-> "build_commitment_transaction", local |-> l,
                    channel_parameters |->
                        [channel_type_features |-> t, is_outbound_from_holder |-> o,
                         channel_value_satoshis |-> c],
                    value_to_self_msat |-> v, htlcs_in_tx |-> h, feerate_per_kw |-> f,
                    broadcaster_dust_limit_satoshis |-> d,
                    countersignatory_dust_limit_satoshis |-> cd]

\* The state a call of the builder starts in, but for its arguments.
InitCall ==
    /\ state = EnforcementState_new
    /\ call = NoCall
    /\ holder_signed = {}
    /\ ret = Pending
    /\ threads = NoThreads
    /\ mutex = "free"
    /\ serial = NoSerial

\* One function applied to the arguments drawn.
Apply(fn, result) ==
    /\ args.fn = fn
    /\ ret = Pending
    /\ ret' = result
    /\ UNCHANGED <<state, call, holder_signed, args, threads, mutex, serial>>

HTLCAmountDirectionIsDust ==
    Apply("HTLCAmountDirection::is_dust",
          [result |-> "Ok",
           value |-> HTLCAmountDirection_is_dust(args.self, args.local, args.feerate_per_kw,
                        args.broadcaster_dust_limit_satoshis, args.channel_type)])

IsDust ==
    Apply("is_dust",
          [result |-> "Ok",
           value |-> is_dust(args.offered, args.amount_msat, args.feerate_per_kw,
                        args.broadcaster_dust_limit_satoshis, args.channel_type)])

CommitTxFeeSat ==
    Apply("commit_tx_fee_sat",
          [result |-> "Ok",
           value |-> SpecTxBuilder_commit_tx_fee_sat(args.feerate_per_kw,
                        args.nondust_htlc_count, args.channel_type)])

GetNextCommitmentStats ==
    Apply("get_next_commitment_stats",
          get_next_commitment_stats(args.local, args.is_outbound_from_holder,
              args.channel_value_satoshis, args.value_to_holder_msat,
              args.next_commitment_htlcs, args.addl_nondust_htlc_count,
              args.feerate_per_kw, args.dust_exposure_limiting_feerate,
              args.broadcaster_dust_limit_satoshis, args.channel_type))

BuildCommitmentTransaction ==
    Apply("build_commitment_transaction",
          build_commitment_transaction(args.local, args.channel_parameters,
              args.value_to_self_msat, args.htlcs_in_tx, args.feerate_per_kw,
              args.broadcaster_dust_limit_satoshis))

\* The two dust tests.
InitDust ==
    /\ InitCall
    /\ HTLCAmountDirectionIsDustArgs(DustAmountsMsat) \/ IsDustArgs(DustAmountsMsat)

NextDust == HTLCAmountDirectionIsDust \/ IsDust

SpecDust == InitDust /\ [][NextDust]_vars

\* The commitment fee, alone and in the statistics of the next commitment.
InitFees ==
    /\ InitCall
    /\ \/ CommitTxFeeSatArgs(MaxHtlcs + MaxAddlHtlcs)
       \/ GetNextCommitmentStatsArgs(MaxHtlcs, MaxAddlHtlcs)

NextFees == CommitTxFeeSat \/ GetNextCommitmentStats

SpecFees == InitFees /\ [][NextFees]_vars

\* The commitment transaction.
InitBuild == InitCall /\ BuildCommitmentTransactionArgs(MaxHtlcs)

NextBuild == BuildCommitmentTransaction

SpecBuild == InitBuild /\ [][NextBuild]_vars

\* The balances before the fee, of the next commitment and of the commitment
\* transaction built.
InitBalances ==
    /\ InitCall
    /\ \/ GetNextCommitmentStatsArgs(MaxHtlcs, 0)
       \/ BuildCommitmentTransactionArgs(MaxHtlcs)

NextBalances == GetNextCommitmentStats \/ BuildCommitmentTransaction

SpecBalances == InitBalances /\ [][NextBalances]_vars

(***************************************************************************)
(* SpecTxBuilder::get_available_balances (tx_builder.rs l.202-332).  Two   *)
(* of its steps are a plain `-` on u64 (l.270, l.320): on an underflow the *)
(* build decides, a panic with overflow checks (the debug profile) and a   *)
(* wrap-around to 2^64 less the shortfall without (the release profile).   *)
(* The call carries the profile as overflow_checks.  The amounts drawn     *)
(* stay far below 2^64, so that a difference that wrapped is above every   *)
(* other amount of the call: the smaller of an amount and of it is the     *)
(* amount.  The additions and the multiplications by 1000 are plain `+`    *)
(* and `*` in the code too; they do not overflow on the amounts drawn.     *)
(***************************************************************************)

\* ln::channel::FEE_SPIKE_BUFFER_FEE_INCREASE_MULTIPLE
FEE_SPIKE_BUFFER_FEE_INCREASE_MULTIPLE == 2

\* a - b on u64 without a check: the difference, or the wrap-around, which is
\* 2^64 - short.
wrapping_sub(a, b) ==
    IF a >= b THEN [wrapped |-> FALSE, v |-> a - b] ELSE [wrapped |-> TRUE, short |-> b - a]

\* cmp::min(a, d) for d a difference made by wrapping_sub
cmp_min_difference(a, d) == IF d.wrapped THEN a ELSE cmp_min(a, d.v)

\* Mutant of the definition below: right below dust whatever the capacity is.
capacity_minus_commitment_fee_msat_right_below_dust(available_capacity_msat, max_reserved_commit_tx_fee_msat, min_reserved_commit_tx_fee_msat, real_dust_limit_timeout_sat) ==
    LET capacity_minus_max_commitment_fee_msat ==
            saturating_sub(available_capacity_msat, max_reserved_commit_tx_fee_msat)
    IN  IF capacity_minus_max_commitment_fee_msat < real_dust_limit_timeout_sat * 1000
        THEN real_dust_limit_timeout_sat * 1000 - 1
        ELSE capacity_minus_max_commitment_fee_msat

\* get_available_balances l.241-259, the holder funds the channel: the
\* capacity less the fee reserved for the commitment with the HTLC to send,
\* or right below dust with the fee of the commitment without it.
capacity_minus_commitment_fee_msat(available_capacity_msat, max_reserved_commit_tx_fee_msat, min_reserved_commit_tx_fee_msat, real_dust_limit_timeout_sat) ==
    LET capacity_minus_max_commitment_fee_msat ==
            saturating_sub(available_capacity_msat, max_reserved_commit_tx_fee_msat)
        capacity_minus_min_commitment_fee_msat ==
            saturating_sub(available_capacity_msat, min_reserved_commit_tx_fee_msat)
    IN  IF capacity_minus_max_commitment_fee_msat < real_dust_limit_timeout_sat * 1000
        THEN cmp_min(real_dust_limit_timeout_sat * 1000 - 1,
                     capacity_minus_min_commitment_fee_msat)
        ELSE capacity_minus_max_commitment_fee_msat

\* Mutant of the definition below: the minimum is raised whatever the capacity.
limit_by_dust_exposure_minimum_raised(available_capacity_msat, next_outbound_htlc_minimum_msat, remaining_msat_below_dust_exposure_limit, dust_exposure_dust_limit_msat) ==
    [available_capacity_msat |-> available_capacity_msat,
     next_outbound_htlc_minimum_msat |->
        IF remaining_msat_below_dust_exposure_limit.some
        THEN cmp_max(next_outbound_htlc_minimum_msat, dust_exposure_dust_limit_msat)
        ELSE next_outbound_htlc_minimum_msat]

\* get_available_balances l.311-317: close to the limit of the dust exposure,
\* the capacity is cut to what is left below the limit when it is below the
\* dust limit, else the minimum is raised to the dust limit.
limit_by_dust_exposure(available_capacity_msat, next_outbound_htlc_minimum_msat, remaining_msat_below_dust_exposure_limit, dust_exposure_dust_limit_msat) ==
    IF ~remaining_msat_below_dust_exposure_limit.some
    THEN [available_capacity_msat |-> available_capacity_msat,
          next_outbound_htlc_minimum_msat |-> next_outbound_htlc_minimum_msat]
    ELSE IF available_capacity_msat < dust_exposure_dust_limit_msat
    THEN [available_capacity_msat |->
              cmp_min(available_capacity_msat, remaining_msat_below_dust_exposure_limit.v),
          next_outbound_htlc_minimum_msat |-> next_outbound_htlc_minimum_msat]
    ELSE [available_capacity_msat |-> available_capacity_msat,
          next_outbound_htlc_minimum_msat |->
              cmp_max(next_outbound_htlc_minimum_msat, dust_exposure_dust_limit_msat)]

\* SpecTxBuilder::get_available_balances.  "Fault" is an unwrap of an Err of
\* get_next_commitment_stats, or an underflow with overflow checks.  wrapped
\* tells that a subtraction wrapped around; capacity_after_fee_msat is
\* available_capacity_msat at l.273; dust_exposure holds the locals of
\* l.276-317, capacity_msat and limited_msat being available_capacity_msat at
\* l.311 and at l.318.
\* The element of a set of one: what its expression comes to, computed once.
the_one_of(S) == CHOOSE v \in S : TRUE

get_available_balances(overflow_checks, is_outbound_from_holder, channel_value_satoshis, value_to_holder_msat, pending_htlcs, feerate_per_kw, dust_exposure_limiting_feerate, max_dust_htlc_exposure_msat, holder_channel_constraints, counterparty_channel_constraints, channel_type) ==
    LET fee_spike_buffer_htlc ==
            IF supports_anchor_zero_fee_commitments(channel_type) THEN 0 ELSE 1
    IN  the_one_of({
          LET outbound_capacity_msat ==
                  saturating_sub(local_stats_max_fee.holder_balance_before_fee_msat,
                                 holder_channel_constraints.channel_reserve_satoshis * 1000)
              real == second_stage_tx_fees_sat(channel_type, feerate_per_kw)
              \* l.232-259
              real_dust_limit_timeout_sat ==
                  real.timeout_tx_fee_sat + holder_channel_constraints.dust_limit_satoshis
              multiple == IF ~supports_anchors_zero_fee_htlc_tx(channel_type)
                          THEN FEE_SPIKE_BUFFER_FEE_INCREASE_MULTIPLE ELSE 1
              \* l.260-272
              real_dust_limit_success_sat ==
                  real.success_tx_fee_sat + counterparty_channel_constraints.dust_limit_satoshis
              holder_selected_chan_reserve_msat ==
                  counterparty_channel_constraints.channel_reserve_satoshis * 1000
              only_dust ==
                  /\ ~is_outbound_from_holder
                  /\ remote_stats.counterparty_balance_before_fee_msat
                        < remote_stats.commit_tx_fee_sat * 1000 + holder_selected_chan_reserve_msat
              right_below_dust == wrapping_sub(real_dust_limit_success_sat * 1000, 1)
              capacity_after_fee ==
                  IF is_outbound_from_holder
                  THEN capacity_minus_commitment_fee_msat(outbound_capacity_msat,
                          local_stats_max_fee.commit_tx_fee_sat * 1000 * multiple,
                          local_stats_min_fee.commit_tx_fee_sat * 1000 * multiple,
                          real_dust_limit_timeout_sat)
                  ELSE IF only_dust THEN cmp_min_difference(outbound_capacity_msat, right_below_dust)
                  ELSE outbound_capacity_msat
              \* l.274-309
              dust_buffer_feerate == get_dust_buffer_feerate(feerate_per_kw)
              buffer == second_stage_tx_fees_sat(channel_type, dust_buffer_feerate)
              buffer_dust_limit_success_sat ==
                  buffer.success_tx_fee_sat + counterparty_channel_constraints.dust_limit_satoshis
              buffer_dust_limit_timeout_sat ==
                  buffer.timeout_tx_fee_sat + holder_channel_constraints.dust_limit_satoshis
              capacity_nondust ==
                  IF remote_stats.extra_accepted_htlc_dust_exposure_msat
                        > max_dust_htlc_exposure_msat
                  THEN cmp_min(capacity_after_fee, buffer_dust_limit_success_sat * 1000)
                  ELSE capacity_after_fee
              remote_close ==
                  remote_stats.dust_exposure_msat + buffer_dust_limit_success_sat * 1000
                      > max_dust_htlc_exposure_msat + 1
              local_close ==
                  local_stats_max_fee.dust_exposure_msat
                      + buffer_dust_limit_timeout_sat * 1000 - 1
                      > max_dust_htlc_exposure_msat
              remaining_remote ==
                  saturating_sub(max_dust_htlc_exposure_msat, remote_stats.dust_exposure_msat)
              remaining_local ==
                  saturating_sub(max_dust_htlc_exposure_msat,
                                 local_stats_max_fee.dust_exposure_msat)
              remaining_msat_below_dust_exposure_limit ==
                  IF local_close
                  THEN Some(IF remote_close THEN cmp_min(remaining_remote, remaining_local)
                            ELSE remaining_local)
                  ELSE IF remote_close THEN Some(remaining_remote)
                  ELSE None
              dust_exposure_dust_limit_msat ==
                  cmp_max(IF remote_close THEN buffer_dust_limit_success_sat * 1000 ELSE 0,
                          IF local_close THEN buffer_dust_limit_timeout_sat * 1000 ELSE 0)
              \* l.311-317
              limited == limit_by_dust_exposure(capacity_nondust,
                              counterparty_channel_constraints.htlc_minimum_msat,
                              remaining_msat_below_dust_exposure_limit,
                              dust_exposure_dust_limit_msat)
              \* l.319-324
              outbound(htlc) == htlc.outbound
              pending_outbound == SelectSeq(pending_htlcs, outbound)
              in_flight_left ==
                  wrapping_sub(counterparty_channel_constraints.max_htlc_value_in_flight_msat,
                               SumAmounts(pending_outbound))
              capacity_in_flight ==
                  cmp_min_difference(limited.available_capacity_msat, in_flight_left)
              available_capacity_msat ==
                  IF Len(pending_outbound) + 1
                        > counterparty_channel_constraints.max_accepted_htlcs
                  THEN 0 ELSE capacity_in_flight
              wrapped == (only_dust /\ right_below_dust.wrapped) \/ in_flight_left.wrapped
          IN  IF local_stats_max_fee.result # "Ok" THEN [result |-> "Fault"]
              ELSE IF local_stats_min_fee.result # "Ok" THEN [result |-> "Fault"]
              ELSE IF remote_stats.result # "Ok" THEN [result |-> "Fault"]
              ELSE IF overflow_checks /\ wrapped THEN [result |-> "Fault"]
              ELSE [result |-> "Ok",
                    inbound_capacity_msat |->
                        saturating_sub(remote_stats.counterparty_balance_before_fee_msat,
                            counterparty_channel_constraints.channel_reserve_satoshis * 1000),
                    outbound_capacity_msat |-> outbound_capacity_msat,
                    next_outbound_htlc_limit_msat |-> available_capacity_msat,
                    next_outbound_htlc_minimum_msat |-> limited.next_outbound_htlc_minimum_msat,
                    wrapped |-> wrapped,
                    capacity_after_fee_msat |-> capacity_after_fee,
                    dust_exposure |->
                        [capacity_msat |-> capacity_nondust,
                         limited_msat |-> limited.available_capacity_msat,
                         remaining_msat_below_dust_exposure_limit |->
                              remaining_msat_below_dust_exposure_limit,
                         dust_exposure_dust_limit_msat |-> dust_exposure_dust_limit_msat]] :
            \* l.215-223: the three statistics, each computed once
            local_stats_max_fee \in {
              get_next_commitment_stats(TRUE, is_outbound_from_holder, channel_value_satoshis,
                value_to_holder_msat, pending_htlcs, fee_spike_buffer_htlc + 1,
                feerate_per_kw, dust_exposure_limiting_feerate,
                holder_channel_constraints.dust_limit_satoshis, channel_type)},
            local_stats_min_fee \in {
              get_next_commitment_stats(TRUE, is_outbound_from_holder, channel_value_satoshis,
                value_to_holder_msat, pending_htlcs, fee_spike_buffer_htlc,
                feerate_per_kw, dust_exposure_limiting_feerate,
                holder_channel_constraints.dust_limit_satoshis, channel_type)},
            remote_stats \in {
              get_next_commitment_stats(FALSE, is_outbound_from_holder, channel_value_satoshis,
                value_to_holder_msat, pending_htlcs, 1,
                feerate_per_kw, dust_exposure_limiting_feerate,
                counterparty_channel_constraints.dust_limit_satoshis, channel_type)} })

\* The calls of get_available_balances.  The holder's limits: its dust limit
\* and the reserve it has to keep.  The counterparty's: a dust limit, 0 among
\* them, the reserve, the most it lets be in flight (less and more than the
\* HTLCs pending) and the most HTLCs it accepts (one and plenty).
ReservesSat == {0, 1000}

InFlightLimits ==
    { [max_htlc_value_in_flight_msat |-> 5000000, max_accepted_htlcs |-> 483],
      [max_htlc_value_in_flight_msat |-> 1000000, max_accepted_htlcs |-> 483],
      [max_htlc_value_in_flight_msat |-> 5000000, max_accepted_htlcs |-> 1] }

MaxDustHtlcExposuresMsat == {400000, 5000000}

\* args is a call of SpecTxBuilder::get_available_balances, in a build with
\* or without overflow checks.
GetAvailableBalancesArgs(max_htlcs) ==
    \E t \in ChannelTypeFeatures :
        \E oc \in BOOLEAN, o \in BOOLEAN, c \in ChannelValues,
           v \in {500000, 2500000, 5000001},
           h \in SeqsUpTo([outbound : BOOLEAN, amount_msat : {353999, 2050999}], max_htlcs),
           f \in FeeratesOf(t), e \in {None, Some(253)},
           x \in MaxDustHtlcExposuresMsat, r \in ReservesSat,
           cd \in {0, 354}, fl \in InFlightLimits :
            args = [fn |-> "get_available_balances", overflow_checks |-> oc,
                    is_outbound_from_holder |-> o, channel_value_satoshis |-> c,
                    value_to_holder_msat |-> v, pending_htlcs |-> h,
                    feerate_per_kw |-> f, dust_exposure_limiting_feerate |-> e,
                    max_dust_htlc_exposure_msat |-> x,
                    holder_channel_constraints |->
                        [dust_limit_satoshis |-> 354, channel_reserve_satoshis |-> r,
                         htlc_minimum_msat |-> 1,
                         max_htlc_value_in_flight_msat |-> 5000000,
                         max_accepted_htlcs |-> 483],
                    counterparty_channel_constraints |->
                        [dust_limit_satoshis |-> cd, channel_reserve_satoshis |-> r,
                         htlc_minimum_msat |-> 1,
                         max_htlc_value_in_flight_msat |->
                            fl.max_htlc_value_in_flight_msat,
                         max_accepted_htlcs |-> fl.max_accepted_htlcs],
                    channel_type |-> t]

GetAvailableBalances ==
    Apply("get_available_balances",
          get_available_balances(args.overflow_checks, args.is_outbound_from_holder,
              args.channel_value_satoshis, args.value_to_holder_msat, args.pending_htlcs,
              args.feerate_per_kw, args.dust_exposure_limiting_feerate,
              args.max_dust_htlc_exposure_msat, args.holder_channel_constraints,
              args.counterparty_channel_constraints, args.channel_type))

\* The estimator.
InitEstimator == InitCall /\ GetAvailableBalancesArgs(MaxHtlcs)

NextEstimator == GetAvailableBalances

SpecEstimator == InitEstimator /\ [][NextEstimator]_vars

\* The feerates get_dust_buffer_feerate is asked about lie around the feerates
\* at which it changes: 0, the feerate whose quarter is 2530, the largest
\* whose product with 1250 fits the word, the largest that 2530 can be added
\* to, and the largest of all.
FeerateSpread == 12

DustBufferFeerates(spread) ==
    { f \in { b + d : b \in {0, 10120, u32_MAX \div 1250, u32_MAX - 2530, u32_MAX - spread},
                       d \in (0 - spread)..spread } :
        f >= 0 }

\* args is a call of get_dust_buffer_feerate(feerate_per_kw).
GetDustBufferFeerateArgs(spread) ==
    \E f \in DustBufferFeerates(spread) :
        args = [fn |-> "get_dust_buffer_feerate", feerate_per_kw |-> f]

GetDustBufferFeerate ==
    Apply("get_dust_buffer_feerate",
          [result |-> "Ok", value |-> get_dust_buffer_feerate(args.feerate_per_kw)])

\* The dust buffer feerate.
InitDustBuffer == InitCall /\ GetDustBufferFeerateArgs(FeerateSpread)

NextDustBuffer == GetDustBufferFeerate

SpecDustBuffer == InitDustBuffer /\ [][NextDustBuffer]_vars

(***************************************************************************)
(* The shared anchor of a channel with zero-fee commitments, as            *)
(* test_p2a_anchor_values_under_trims_and_rounds reads it off the local    *)
(* commitment transaction of either node: the channel is split evenly,     *)
(* payments are routed from node 0 to node 1 and back, both nodes have a   *)
(* dust limit of 354 sat and the feerate is 0.                             *)
(***************************************************************************)

\* The most the shared anchor holds, in satoshis.
P2A_MAX_VALUE == 240

\* The channel type the test negotiates.
anchor_zero_fee_commitments ==
    [anchors_zero_fee_htlc_tx |-> FALSE, anchor_zero_fee_commitments |-> TRUE]

\* The outputs of the HTLCs of a commitment transaction, in satoshis.
RECURSIVE htlc_outputs_value_sat(_)
htlc_outputs_value_sat(nondust_htlcs) ==
    IF nondust_htlcs = <<>> THEN 0
    ELSE (Head(nondust_htlcs).amount_msat \div 1000)
            + htlc_outputs_value_sat(Tail(nondust_htlcs))

\* The value of the shared anchor of a commitment transaction: what the
\* outputs of the balances and of the HTLCs leave of the channel, up to
\* P2A_MAX_VALUE.
p2a_anchor_value_sat(channel_value_satoshis, tx) ==
    cmp_min(P2A_MAX_VALUE,
            channel_value_satoshis - tx.to_broadcaster_value_sat
                - tx.to_countersignatory_value_sat
                - htlc_outputs_value_sat(tx.nondust_htlcs))

\* The HTLCs of the payments routed, as the commitment of a node has them:
\* those the node sent are offered by it.
routed_htlcs(sent_amt_msat, received_amt_msat) ==
    [i \in 1..Len(sent_amt_msat) |-> [offered |-> TRUE, amount_msat |-> sent_amt_msat[i]]]
        \o [i \in 1..Len(received_amt_msat) |->
                [offered |-> FALSE, amount_msat |-> received_amt_msat[i]]]

\* get_local_commitment_txn!: the local commitment transaction of a node that
\* holds holder_msat of the channel before the payments it sent.
get_local_commitment_txn(is_outbound_from_holder, channel_value_satoshis, holder_msat, sent_amt_msat, received_amt_msat) ==
    build_commitment_transaction(TRUE,
        [channel_type_features |-> anchor_zero_fee_commitments,
         is_outbound_from_holder |-> is_outbound_from_holder,
         channel_value_satoshis |-> channel_value_satoshis],
        holder_msat, routed_htlcs(sent_amt_msat, received_amt_msat),
        0, 354)

\* p2a_value_test!: the anchors of the local commitments of node 0, which
\* opened the channel, and of node 1, with the payments pending.
p2a_value_test(channel_value_satoshis, node_0_1_amt_msat, node_1_0_amt_msat) ==
    LET half_msat == (channel_value_satoshis \div 2) * 1000
        node_0 == get_local_commitment_txn(TRUE, channel_value_satoshis, half_msat,
                        node_0_1_amt_msat, node_1_0_amt_msat)
        node_1 == get_local_commitment_txn(FALSE, channel_value_satoshis,
                        channel_value_satoshis * 1000 - half_msat,
                        node_1_0_amt_msat, node_0_1_amt_msat)
    IN  IF node_0.result = "Fault" \/ node_1.result = "Fault" THEN [result |-> "Fault"]
        ELSE [result |-> "Ok",
              node_0 |-> p2a_anchor_value_sat(channel_value_satoshis, node_0.tx),
              node_1 |-> p2a_anchor_value_sat(channel_value_satoshis, node_1.tx),
              node_0_tx |-> node_0.tx,
              node_1_tx |-> node_1.tx]

\* The amounts the test routes, and the one between two of them at which an
\* HTLC stops being trimmed.
P2aAmountsMsat ==
    {1, 999, 1000, 1999, 238000, 238001, 240000, 240001,
     353000, 353001, 353999, 354000, 354001, 354002}

\* args is one p2a_value_test!: up to max_htlcs payments from node 0 to
\* node 1 and at most one back.
P2aValueTestArgs(max_htlcs) ==
    \E c \in ChannelValues :
        \E a \in SeqsUpTo(P2aAmountsMsat, max_htlcs), b \in SeqsUpTo(P2aAmountsMsat, 1) :
            args = [fn |-> "p2a_value_test", channel_value_satoshis |-> c,
                    node_0_1_amt_msat |-> a, node_1_0_amt_msat |-> b]

P2aValueTest ==
    Apply("p2a_value_test",
          p2a_value_test(args.channel_value_satoshis, args.node_0_1_amt_msat,
                         args.node_1_0_amt_msat))

InitAnchor == InitCall /\ P2aValueTestArgs(MaxHtlcs)

NextAnchor == P2aValueTest

SpecAnchor == InitAnchor /\ [][NextAnchor]_vars

(***************************************************************************)
(* The claims of many HTLCs at once, as test_htlc_claim_chunking sees      *)
(* them: node 0 routes payments to node 1, node 1 claims them all, the     *)
(* local commitment transaction of node 1 is mined, and node 1 hands every *)
(* BumpTransaction event to its bump_tx_handler, which broadcasts the      *)
(* transactions that claim the HTLCs.  `args` is the scenario, `ret` what  *)
(* has happened so far.                                                    *)
(***************************************************************************)

\* The most HTLCs routed, but for the 75 of the test.
MaxClaimable == 5

\* The first `k` of the HTLCs of a set, by their position in the commitment.
FirstHtlcs(htlcs, k) == { h \in htlcs : Cardinality({ g \in htlcs : g < h }) < k }

\* A transaction claiming HTLCs of the commitment transaction: an input and an
\* output for each HTLC, and an input of the wallet and its change, which pay
\* the fee.
HtlcClaim(commit_tx, htlcs) ==
    [spends |-> commit_tx, htlcs |-> htlcs,
     input |-> Cardinality(htlcs) + 1, output |-> Cardinality(htlcs) + 1]

\* Mutant of the definition below: one transaction, however many the HTLCs.
htlc_claim_chunks_unbounded(commit_tx, htlcs, max_inputs) ==
    IF htlcs = {} THEN <<>> ELSE <<HtlcClaim(commit_tx, htlcs)>>

\* What the handler of a BumpTransaction event broadcasts for the HTLCs to
\* claim: transactions of at most max_inputs inputs, each filled before the
\* next is begun.
RECURSIVE htlc_claim_chunks(_, _, _)
htlc_claim_chunks(commit_tx, htlcs, max_inputs) ==
    IF htlcs = {} THEN <<>>
    ELSE LET chunk == FirstHtlcs(htlcs, max_inputs - 1)
         IN  <<HtlcClaim(commit_tx, chunk)>>
                \o htlc_claim_chunks(commit_tx, htlcs \ chunk, max_inputs)

\* args is the scenario of the test: `htlcs` payments routed from node 0 to
\* node 1 and claimed by node 1, whose local commitment transaction is mined;
\* the handler of node 1 puts at most max_inputs inputs in a transaction.  The
\* test has 75 HTLCs and sees 60 inputs at most.
HtlcClaimChunkingArgs(max_claimable) ==
    \E s \in ((0..max_claimable) \X {2, 3, 4}) \cup {<<75, 60>>} :
        args = [fn |-> "test_htlc_claim_chunking", htlcs |-> s[1], max_inputs |-> s[2],
                commit_tx |-> "node_1_commit_tx", broadcaster |-> 1, claimant |-> 1]

\* A step of the test: `ret` changes and nothing else.
TestStep(before, after) ==
    /\ args.fn = "test_htlc_claim_chunking"
    /\ ret = before
    /\ ret' = after
    /\ UNCHANGED <<state, call, holder_signed, args, threads, mutex, serial>>

\* mine_transaction(&nodes[1], &node_1_commit_tx[0]): every HTLC is to claim,
\* and the chain monitor of node 1 has a BumpTransaction event for them.
MineCommitmentTransaction ==
    TestStep(Pending,
             [result |-> "Ok", unresolved |-> 1..args.htlcs,
              events |-> IF args.htlcs = 0 THEN 0 ELSE 1,
              txn_broadcast |-> <<>>, handled |-> 0, mined |-> {}])

\* nodes[1].bump_tx_handler.handle_event(&bump_event): the transactions
\* claiming the HTLCs not yet claimed on chain are broadcast.
HandleEvent ==
    /\ ret # Pending
    /\ ret.events > 0
    /\ TestStep(ret,
                [ret EXCEPT !.events = 0,
                            !.handled = @ + 1,
                            !.txn_broadcast = htlc_claim_chunks(args.commit_tx,
                                                  ret.unresolved, args.max_inputs)])

\* mine_transaction(&nodes[1], &htlc_claims[i]): the HTLCs the transaction
\* claims are resolved, and there is an event for the others.
MineHtlcClaim ==
    /\ ret # Pending
    /\ ret.events = 0
    /\ \E i \in 1..Len(ret.txn_broadcast) :
          LET claim == ret.txn_broadcast[i]
              unresolved == ret.unresolved \ claim.htlcs
          IN  /\ claim.htlcs \subseteq ret.unresolved
              /\ TestStep(ret,
                          [ret EXCEPT !.unresolved = unresolved,
                                      !.mined = @ \cup {claim.htlcs},
                                      !.events = IF unresolved = {} THEN 0 ELSE 1])

InitSweep == InitCall /\ HtlcClaimChunkingArgs(MaxClaimable)

NextSweep == MineCommitmentTransaction \/ HandleEvent \/ MineHtlcClaim

SpecSweep == InitSweep /\ [][NextSweep]_vars

(***************************************************************************)
(* The witness builders, on a TestChannelSigner.  A builder asks the       *)
(* signer for the signature, which is a call of the signer as any other,   *)
(* and puts the witness together; `args` is the call of the builder, `ret` *)
(* what it returned.  Keys, signatures and scripts are the terms they are  *)
(* made from.                                                              *)
(***************************************************************************)

PerCommitmentKeys == {"per_commitment_key_1", "per_commitment_key_2"}

PaymentPreimages == {<<42, 42>>, <<7, 7>>}

\* PublicKey::from_secret_key.
PublicKey_from_secret_key(secret_key) == [public_key_of |-> secret_key]

PerCommitmentPoints == { PublicKey_from_secret_key(k) : k \in PerCommitmentKeys }

\* The HTLC outputs claimed.
HTLCOutputsInCommitment == [offered : BOOLEAN, amount_msat : {2050999}]

\* get_populated_parameters().as_counterparty_broadcastable(): the counterparty
\* broadcasts, the holder countersigns, and the delay is the one the holder
\* chose.
as_counterparty_broadcastable ==
    [broadcaster_pubkeys |-> "counterparty_pubkeys",
     countersignatory_pubkeys |-> "holder_pubkeys",
     contest_delay |-> "holder_selected_contest_delay",
     channel_type_features |-> anchor_zero_fee_commitments]

\* TxCreationKeys::from_channel_static_keys: each key from a base point of
\* one party and the per-commitment point.
TxCreationKeys_from_channel_static_keys(per_commitment_point, broadcaster_pubkeys, countersignatory_pubkeys) ==
    LET derived(pubkeys, basepoint) ==
            [pubkeys |-> pubkeys, basepoint |-> basepoint,
             per_commitment_point |-> per_commitment_point]
    IN  [per_commitment_point |-> per_commitment_point,
         revocation_key |-> derived(countersignatory_pubkeys, "revocation_basepoint"),
         broadcaster_htlc_key |-> derived(broadcaster_pubkeys, "htlc_basepoint"),
         countersignatory_htlc_key |-> derived(countersignatory_pubkeys, "htlc_basepoint"),
         broadcaster_delayed_payment_key |->
             derived(broadcaster_pubkeys, "delayed_payment_basepoint")]

\* chan_utils::get_revokeable_redeemscript.
get_revokeable_redeemscript(revocation_key, contest_delay, broadcaster_delayed_payment_key) ==
    [script |-> "revokeable", revocation_key |-> revocation_key,
     contest_delay |-> contest_delay,
     broadcaster_delayed_payment_key |-> broadcaster_delayed_payment_key]

\* chan_utils::get_htlc_redeemscript.
get_htlc_redeemscript(htlc, channel_type_features, keys) ==
    [script |-> IF htlc.offered THEN "offered_htlc" ELSE "received_htlc",
     htlc |-> htlc, channel_type_features |-> channel_type_features, keys |-> keys]

\* EcdsaSignature::sighash_all(sig).serialize(): the signature of the signer
\* method, on what it was asked to sign, and the byte of the sighash type.
EcdsaSignature_sighash_all(method, signed_with) ==
    [signature |-> [method |-> method, signed_with |-> signed_with],
     sighash_type |-> "SIGHASH_ALL"]

\* Witness::from_slice.
Witness_from_slice(slice) == slice

\* What `?` does with the Result of the signer, and the builder with the
\* signature: Err is returned as it is, a panic of the signer is one of the
\* builder, and the witness is built of a signature.
built_on(signed, witness) ==
    IF signed.result = "Err" THEN [result |-> "Err", signed |-> signed]
    ELSE IF signed.result = "Fault" THEN [result |-> "Fault", signed |-> signed]
    ELSE [result |-> "Ok", signed |-> signed, witness |-> witness]

\* Mutant of the definition below: the witness is built whatever the signer
\* returned.
spend_justice_revoked_output_unwrap_or_default(self, st, inner, per_commitment_key) ==
    LET per_commitment_point == PublicKey_from_secret_key(per_commitment_key)
        signed == sign_justice_revoked_output(self, st, inner)
        ecdsa_sig == EcdsaSignature_sighash_all("sign_justice_revoked_output",
                                                per_commitment_key)
        params == as_counterparty_broadcastable
        keys == TxCreationKeys_from_channel_static_keys(per_commitment_point,
                    params.broadcaster_pubkeys, params.countersignatory_pubkeys)
        witness_script == get_revokeable_redeemscript(keys.revocation_key,
                              params.contest_delay, keys.broadcaster_delayed_payment_key)
    IN  [result |-> "Ok", signed |-> signed,
         witness |-> Witness_from_slice(<<ecdsa_sig, <<1>>, witness_script>>)]

\* WitnessBuilder::spend_justice_revoked_output.
spend_justice_revoked_output(self, st, inner, per_commitment_key) ==
    LET per_commitment_point == PublicKey_from_secret_key(per_commitment_key)
        signed == sign_justice_revoked_output(self, st, inner)
        ecdsa_sig == EcdsaSignature_sighash_all("sign_justice_revoked_output",
                                                per_commitment_key)
        params == as_counterparty_broadcastable
        keys == TxCreationKeys_from_channel_static_keys(per_commitment_point,
                    params.broadcaster_pubkeys, params.countersignatory_pubkeys)
        witness_script == get_revokeable_redeemscript(keys.revocation_key,
                              params.contest_delay, keys.broadcaster_delayed_payment_key)
    IN  built_on(signed, Witness_from_slice(<<ecdsa_sig, <<1>>, witness_script>>))

\* WitnessBuilder::spend_justice_revoked_htlc.
spend_justice_revoked_htlc(self, st, inner, per_commitment_key, htlc) ==
    LET per_commitment_point == PublicKey_from_secret_key(per_commitment_key)
        signed == sign_justice_revoked_htlc(self, st, inner)
        ecdsa_sig == EcdsaSignature_sighash_all("sign_justice_revoked_htlc",
                                                <<per_commitment_key, htlc>>)
        params == as_counterparty_broadcastable
        keys == TxCreationKeys_from_channel_static_keys(per_commitment_point,
                    params.broadcaster_pubkeys, params.countersignatory_pubkeys)
        witness_script == get_htlc_redeemscript(htlc, params.channel_type_features, keys)
    IN  built_on(signed,
                 Witness_from_slice(<<ecdsa_sig, keys.revocation_key, witness_script>>))

\* Mutant of the definition below: the script before the preimage.
spend_counterparty_htlc_output_script_first(self, st, inner, per_commitment_point, htlc, preimage) ==
    LET signed == sign_counterparty_htlc_transaction(self, st, inner)
        ecdsa_sig == EcdsaSignature_sighash_all("sign_counterparty_htlc_transaction",
                                                <<per_commitment_point, htlc>>)
        witness_item == IF preimage.some THEN preimage.v ELSE <<>>
        params == as_counterparty_broadcastable
        keys == TxCreationKeys_from_channel_static_keys(per_commitment_point,
                    params.broadcaster_pubkeys, params.countersignatory_pubkeys)
        witness_script == get_htlc_redeemscript(htlc, params.channel_type_features, keys)
    IN  built_on(signed, Witness_from_slice(<<ecdsa_sig, witness_script, witness_item>>))

\* WitnessBuilder::spend_counterparty_htlc_output.
spend_counterparty_htlc_output(self, st, inner, per_commitment_point, htlc, preimage) ==
    LET signed == sign_counterparty_htlc_transaction(self, st, inner)
        ecdsa_sig == EcdsaSignature_sighash_all("sign_counterparty_htlc_transaction",
                                                <<per_commitment_point, htlc>>)
        witness_item == IF preimage.some THEN preimage.v ELSE <<>>
        params == as_counterparty_broadcastable
        keys == TxCreationKeys_from_channel_static_keys(per_commitment_point,
                    params.broadcaster_pubkeys, params.countersignatory_pubkeys)
        witness_script == get_htlc_redeemscript(htlc, params.channel_type_features, keys)
    IN  built_on(signed, Witness_from_slice(<<ecdsa_sig, witness_item, witness_script>>))

\* A call of a builder: the call of the signer it makes is the last call of
\* the signer, and what the builder returns is kept.
Build(arguments, method, self, r) ==
    /\ state' = r.signed.state
    /\ call' = [method |-> method, self |-> self, idx |-> 0,
                result |-> r.signed.result, inner_called |-> r.signed.inner_called,
                pre |-> state]
    /\ args' = arguments
    /\ ret' = IF r.result = "Ok" THEN [result |-> "Ok", witness |-> r.witness]
              ELSE [result |-> r.result]
    /\ UNCHANGED <<holder_signed, threads, mutex, serial>>

SpendJusticeRevokedOutput(self, inner, per_commitment_key) ==
    Build([fn |-> "spend_justice_revoked_output", per_commitment_key |-> per_commitment_key],
          "sign_justice_revoked_output", self,
          spend_justice_revoked_output(self, state, inner, per_commitment_key))

SpendJusticeRevokedHtlc(self, inner, per_commitment_key, htlc) ==
    Build([fn |-> "spend_justice_revoked_htlc", per_commitment_key |-> per_commitment_key,
           htlc |-> htlc],
          "sign_justice_revoked_htlc", self,
          spend_justice_revoked_htlc(self, state, inner, per_commitment_key, htlc))

SpendCounterpartyHtlcOutput(self, inner, per_commitment_point, htlc, preimage) ==
    Build([fn |-> "spend_counterparty_htlc_output",
           per_commitment_point |-> per_commitment_point, htlc |-> htlc,
           preimage |-> preimage],
          "sign_counterparty_htlc_transaction", self,
          spend_counterparty_htlc_output(self, state, inner, per_commitment_point,
                                         htlc, preimage))

\* The operations of the signer the builders need.
WitnessSignerOps ==
    {"SignJusticeRevokedOutput", "SignJusticeRevokedHtlc", "SignCounterpartyHtlcTransaction"}

NextWitness ==
    \/ \E op \in WitnessSignerOps : DisableOp(TestChannelSigner_new, op)
    \/ \E op \in WitnessSignerOps : EnableOp(TestChannelSigner_new, op)
    \/ \E inner \in InnerResults, k \in PerCommitmentKeys :
          SpendJusticeRevokedOutput(TestChannelSigner_new, inner, k)
    \/ \E inner \in InnerResults, k \in PerCommitmentKeys, htlc \in HTLCOutputsInCommitment :
          SpendJusticeRevokedHtlc(TestChannelSigner_new, inner, k, htlc)
    \/ \E inner \in InnerResults, p \in PerCommitmentPoints,
          htlc \in HTLCOutputsInCommitment,
          preimage \in {None} \cup { Some(v) : v \in PaymentPreimages } :
          SpendCounterpartyHtlcOutput(TestChannelSigner_new, inner, p, htlc, preimage)

SpecWitness == Init /\ [][NextWitness]_vars

(***************************************************************************)
(* ClaimsSweeper::finalize_input, on a TestChannelSigner.  `args` is the   *)
(* call: the claim, the transaction as it was handed over and the index of *)
(* the input; `ret` is what the call returned and the transaction as it    *)
(* left it.                                                                *)
(***************************************************************************)

\* The most inputs of a transaction handed to finalize_input.
MaxSweepInputs == 2

\* The claims finalize_input is handed: the four kinds it solves and one of
\* the other variants of PackageSolvingData.
PackageSolvingData ==
    { [kind |-> "RevokedOutput", per_commitment_key |-> "per_commitment_key_1"],
      [kind |-> "RevokedHTLCOutput", per_commitment_key |-> "per_commitment_key_1",
       htlc |-> [offered |-> TRUE, amount_msat |-> 2050999]],
      [kind |-> "CounterpartyOfferedHTLCOutput",
       per_commitment_point |-> PublicKey_from_secret_key("per_commitment_key_1"),
       htlc |-> [offered |-> TRUE, amount_msat |-> 2050999], preimage |-> <<42, 42>>],
      [kind |-> "CounterpartyReceivedHTLCOutput",
       per_commitment_point |-> PublicKey_from_secret_key("per_commitment_key_1"),
       htlc |-> [offered |-> FALSE, amount_msat |-> 2050999]],
      [kind |-> "HolderHTLCOutput"] }

\* A transaction of n inputs none of which has a witness yet.
UnsignedTransaction(n) == [input |-> [j \in 1..n |-> [witness |-> <<>>]]]

\* if let Ok(witness) = .. { bumped_tx.input[i].witness = witness; } and what
\* follows when the builder returned Err: `return false` in the two penalty
\* arms, nothing in the two arms of the HTLCs of the counterparty.  An index
\* past the inputs is a panic of the assignment.
assign_witness(built, bumped_tx, i, err_returns_false) ==
    IF built.result = "Fault"
    THEN [result |-> "Fault", signed |-> built.signed, bumped_tx |-> bumped_tx]
    ELSE IF built.result = "Err"
    THEN [result |-> "Ok", value |-> ~err_returns_false, signed |-> built.signed,
          bumped_tx |-> bumped_tx]
    ELSE IF i \notin DOMAIN bumped_tx.input
    THEN [result |-> "Fault", signed |-> built.signed, bumped_tx |-> bumped_tx]
    ELSE [result |-> "Ok", value |-> TRUE, signed |-> built.signed,
          bumped_tx |-> [bumped_tx EXCEPT !.input[i].witness = built.witness]]

\* Mutant of the definition below: no arm returns false.
finalize_input_always_true(self, st, inner, claim, bumped_tx, i) ==
    IF claim.kind = "RevokedOutput"
    THEN assign_witness(spend_justice_revoked_output(self, st, inner,
                            claim.per_commitment_key), bumped_tx, i, FALSE)
    ELSE IF claim.kind = "RevokedHTLCOutput"
    THEN assign_witness(spend_justice_revoked_htlc(self, st, inner,
                            claim.per_commitment_key, claim.htlc), bumped_tx, i, FALSE)
    ELSE IF claim.kind = "CounterpartyOfferedHTLCOutput"
    THEN assign_witness(spend_counterparty_htlc_output(self, st, inner,
                            claim.per_commitment_point, claim.htlc, Some(claim.preimage)),
                        bumped_tx, i, FALSE)
    ELSE IF claim.kind = "CounterpartyReceivedHTLCOutput"
    THEN assign_witness(spend_counterparty_htlc_output(self, st, inner,
                            claim.per_commitment_point, claim.htlc, None),
                        bumped_tx, i, FALSE)
    ELSE [result |-> "Fault", signed |-> Ret("none", st), bumped_tx |-> bumped_tx]

\* Mutant of the definition below: the two arms of the HTLCs of the
\* counterparty return false on a signing failure as the penalty arms do.
finalize_input_all_fatal(self, st, inner, claim, bumped_tx, i) ==
    IF claim.kind = "RevokedOutput"
    THEN assign_witness(spend_justice_revoked_output(self, st, inner,
                            claim.per_commitment_key), bumped_tx, i, TRUE)
    ELSE IF claim.kind = "RevokedHTLCOutput"
    THEN assign_witness(spend_justice_revoked_htlc(self, st, inner,
                            claim.per_commitment_key, claim.htlc), bumped_tx, i, TRUE)
    ELSE IF claim.kind = "CounterpartyOfferedHTLCOutput"
    THEN assign_witness(spend_counterparty_htlc_output(self, st, inner,
                            claim.per_commitment_point, claim.htlc, Some(claim.preimage)),
                        bumped_tx, i, TRUE)
    ELSE IF claim.kind = "CounterpartyReceivedHTLCOutput"
    THEN assign_witness(spend_counterparty_htlc_output(self, st, inner,
                            claim.per_commitment_point, claim.htlc, None),
                        bumped_tx, i, TRUE)
    ELSE [result |-> "Fault", signed |-> Ret("none", st), bumped_tx |-> bumped_tx]

\* ClaimsSweeper::finalize_input.  The last arm is panic!("API Error!"), which
\* calls no signer.
finalize_input(self, st, inner, claim, bumped_tx, i) ==
    IF claim.kind = "RevokedOutput"
    THEN assign_witness(spend_justice_revoked_output(self, st, inner,
                            claim.per_commitment_key), bumped_tx, i, TRUE)
    ELSE IF claim.kind = "RevokedHTLCOutput"
    THEN assign_witness(spend_justice_revoked_htlc(self, st, inner,
                            claim.per_commitment_key, claim.htlc), bumped_tx, i, TRUE)
    ELSE IF claim.kind = "CounterpartyOfferedHTLCOutput"
    THEN assign_witness(spend_counterparty_htlc_output(self, st, inner,
                            claim.per_commitment_point, claim.htlc, Some(claim.preimage)),
                        bumped_tx, i, FALSE)
    ELSE IF claim.kind = "CounterpartyReceivedHTLCOutput"
    THEN assign_witness(spend_counterparty_htlc_output(self, st, inner,
                            claim.per_commitment_point, claim.htlc, None),
                        bumped_tx, i, FALSE)
    ELSE [result |-> "Fault", signed |-> Ret("none", st), bumped_tx |-> bumped_tx]

\* The method of the signer finalize_input ends up calling for a claim.
SigningCallOfClaim(claim) ==
    IF claim.kind = "RevokedOutput" THEN "sign_justice_revoked_output"
    ELSE IF claim.kind = "RevokedHTLCOutput" THEN "sign_justice_revoked_htlc"
    ELSE IF claim.kind \in {"CounterpartyOfferedHTLCOutput", "CounterpartyReceivedHTLCOutput"}
    THEN "sign_counterparty_htlc_transaction"
    ELSE "none"

\* A call of finalize_input on a transaction: the call of the signer it makes,
\* if it makes one, is the last call of the signer.
FinalizeInput(self, inner, claim, bumped_tx, i) ==
    LET r == finalize_input(self, state, inner, claim, bumped_tx, i)
    IN  /\ state' = r.signed.state
        /\ call' = IF r.signed.result = "none" THEN call
                   ELSE [method |-> SigningCallOfClaim(claim), self |-> self, idx |-> 0,
                         result |-> r.signed.result,
                         inner_called |-> r.signed.inner_called, pre |-> state]
        /\ args' = [fn |-> "finalize_input", claim |-> claim, bumped_tx |-> bumped_tx,
                    i |-> i]
        /\ ret' = IF r.result = "Ok"
                  THEN [result |-> "Ok", value |-> r.value, bumped_tx |-> r.bumped_tx,
                        signed |-> r.signed.result]
                  ELSE [result |-> "Fault", bumped_tx |-> r.bumped_tx,
                        signed |-> r.signed.result]
        /\ UNCHANGED <<holder_signed, threads, mutex, serial>>

\* The transactions finalize_input may be handed next: one with no witness
\* yet, or the one a call on such a transaction has left.
BumpedTransactions(max_inputs) ==
    {UnsignedTransaction(max_inputs)}
        \cup (IF args.fn = "finalize_input" /\ args.bumped_tx = UnsignedTransaction(max_inputs)
              THEN {ret.bumped_tx} ELSE {})

NextSweeper ==
    \/ \E op \in WitnessSignerOps : DisableOp(TestChannelSigner_new, op)
    \/ \E op \in WitnessSignerOps : EnableOp(TestChannelSigner_new, op)
    \/ \E inner \in InnerResults, claim \in PackageSolvingData,
          bumped_tx \in BumpedTransactions(MaxSweepInputs), i \in 1..(MaxSweepInputs + 1) :
          FinalizeInput(TestChannelSigner_new, inner, claim, bumped_tx, i)

SpecSweeper == Init /\ [][NextSweeper]_vars

(***************************************************************************)
(* A function of the transaction builder called twice with the same        *)
(* arguments.  SpecTxBuilder has no field and every argument is handed     *)
(* over by value or by shared reference, so what the caller holds after    *)
(* the first call is what it held before; between the two calls the signer *)
(* of the channel may be used, which changes the state the channel shares. *)
(***************************************************************************)

\* Mutant of the definition below: build_commitment_transaction is handed
\* the list of HTLCs as its first call left it, the dust trimmed.
TxBuilder_call_on_retained(a) ==
    IF a.fn = "build_commitment_transaction"
    THEN build_commitment_transaction(a.local, a.channel_parameters, a.value_to_self_msat,
             trim_dust_htlcs(a.htlcs_in_tx, a.feerate_per_kw,
                 a.broadcaster_dust_limit_satoshis,
                 a.channel_parameters.channel_type_features),
             a.feerate_per_kw, a.broadcaster_dust_limit_satoshis)
    ELSE IF a.fn = "get_next_commitment_stats"
    THEN get_next_commitment_stats(a.local, a.is_outbound_from_holder,
             a.channel_value_satoshis, a.value_to_holder_msat, a.next_commitment_htlcs,
             a.addl_nondust_htlc_count, a.feerate_per_kw, a.dust_exposure_limiting_feerate,
             a.broadcaster_dust_limit_satoshis, a.channel_type)
    ELSE get_available_balances(a.overflow_checks, a.is_outbound_from_holder,
             a.channel_value_satoshis, a.value_to_holder_msat, a.pending_htlcs,
             a.feerate_per_kw, a.dust_exposure_limiting_feerate,
             a.max_dust_htlc_exposure_msat, a.holder_channel_constraints,
             a.counterparty_channel_constraints, a.channel_type)

\* A method of the trait TxBuilder on the arguments of a call.
TxBuilder_call(a) ==
    IF a.fn = "build_commitment_transaction"
    THEN build_commitment_transaction(a.local, a.channel_parameters, a.value_to_self_msat,
             a.htlcs_in_tx, a.feerate_per_kw, a.broadcaster_dust_limit_satoshis)
    ELSE IF a.fn = "get_next_commitment_stats"
    THEN get_next_commitment_stats(a.local, a.is_outbound_from_holder,
             a.channel_value_satoshis, a.value_to_holder_msat, a.next_commitment_htlcs,
             a.addl_nondust_htlc_count, a.feerate_per_kw, a.dust_exposure_limiting_feerate,
             a.broadcaster_dust_limit_satoshis, a.channel_type)
    ELSE get_available_balances(a.overflow_checks, a.is_outbound_from_holder,
             a.channel_value_satoshis, a.value_to_holder_msat, a.pending_htlcs,
             a.feerate_per_kw, a.dust_exposure_limiting_feerate,
             a.max_dust_htlc_exposure_msat, a.holder_channel_constraints,
             a.counterparty_channel_constraints, a.channel_type)

\* The first call has returned and the second is not made yet.
CalledOnce == ret # Pending /\ ret.result # "twice"

\* The second call, on the arguments of the first; both results are kept.
CallAgain ==
    /\ CalledOnce
    /\ ret' = [result |-> "twice", first |-> ret, again |-> TxBuilder_call(args)]
    /\ UNCHANGED <<state, call, holder_signed, args, threads, mutex, serial>>

\* The signer of the channel is used between the two calls.
SignerUsedBetween ==
    /\ CalledOnce
    /\ call = NoCall
    /\ ValidateHolderCommitment(TestChannelSigner_new, INITIAL_REVOKED_COMMITMENT_NUMBER - 1)

InitTwice ==
    /\ InitCall
    /\ \/ BuildCommitmentTransactionArgs(MaxHtlcs - 1)
       \/ GetNextCommitmentStatsArgs(MaxHtlcs - 1, MaxAddlHtlcs - 1)
       \/ GetAvailableBalancesArgs(MaxHtlcs - 1)

NextTwice ==
    \/ BuildCommitmentTransaction
    \/ GetNextCommitmentStats
    \/ GetAvailableBalances
    \/ SignerUsedBetween
    \/ CallAgain

SpecTwice == InitTwice /\ [][NextTwice]_vars

(***************************************************************************)
(* The properties.  `call` holds the last call and the state it found      *)
(* (call.pre); `state` is the state it left.                               *)
(***************************************************************************)

CounterFields ==
    { "last_counterparty_commitment", "last_counterparty_revoked_commitment",
      "last_holder_revoked_commitment", "last_holder_commitment" }

\* The SignerOp that belongs to a method (the methods without one are left out).
SignerOpOf ==
    [ get_per_commitment_point |-> "GetPerCommitmentPoint",
      release_commitment_secret |-> "ReleaseCommitmentSecret",
      validate_holder_commitment |-> "ValidateHolderCommitment",
      sign_counterparty_commitment |-> "SignCounterpartyCommitment",
      validate_counterparty_revocation |-> "ValidateCounterpartyRevocation",
      sign_holder_commitment |-> "SignHolderCommitment",
      punish_revokeable_output |-> "SignJusticeRevokedOutput",
      sign_justice_revoked_output |-> "SignJusticeRevokedOutput",
      punish_htlc_output |-> "SignJusticeRevokedHtlc",
      sign_justice_revoked_htlc |-> "SignJusticeRevokedHtlc",
      sign_holder_htlc_transaction |-> "SignHolderHtlcTransaction",
      sweep_counterparty_offered_htlc_output |-> "SignCounterpartyHtlcTransaction",
      sweep_counterparty_received_htlc_output |-> "SignCounterpartyHtlcTransaction",
      sign_counterparty_htlc_transaction |-> "SignCounterpartyHtlcTransaction",
      sign_closing_transaction |-> "SignClosingTransaction",
      sign_holder_anchor_input |-> "SignHolderAnchorInput",
      sign_channel_announcement_with_funding_key |->
          "SignChannelAnnouncementWithFundingKey" ]

\* The last call was made while the SignerOp of its method was disabled.
CalledWhileDisabled ==
    /\ call.method \in DOMAIN SignerOpOf
    /\ SignerOpOf[call.method] \in call.pre.disabled_signer_ops

\* The last call was release_commitment_secret with a number its two
\* assertions accept.
RevocationPermitted ==
    /\ \/ call.idx = call.pre.last_holder_revoked_commitment
       \/ call.idx = call.pre.last_holder_revoked_commitment - 1
    /\ call.idx > call.pre.last_holder_commitment

\* C1, as stated: release_commitment_secret(idx) completes only when idx is the
\* last revoked number or one less and is above last_holder_commitment; any
\* other idx faults; on success last_holder_revoked_commitment is idx.
C1_ReleaseAnyOtherIdxFaults ==
    call.method = "release_commitment_secret" =>
        /\ ~RevocationPermitted => call.result = "Fault"
        /\ call.result = "Ok" => state.last_holder_revoked_commitment = call.idx

\* C1, amended: release_commitment_secret(idx) returns Ok only when idx is the
\* last revoked number or one less and is above last_holder_commitment, and
\* then last_holder_revoked_commitment is idx; any other idx faults unless
\* ReleaseCommitmentSecret is disabled; while it is disabled the call returns
\* Err whatever idx is and leaves the state as it was.
C1_ReleaseGuard ==
    call.method = "release_commitment_secret" =>
        /\ call.result = "Ok" =>
              RevocationPermitted /\ state.last_holder_revoked_commitment = call.idx
        /\ (~RevocationPermitted /\ ~CalledWhileDisabled) => call.result = "Fault"
        /\ CalledWhileDisabled => call.result = "Err" /\ state = call.pre

\* C1, witness: a release that moved the counter on by one.
C1_Witness ==
    /\ call.method = "release_commitment_secret"
    /\ call.result = "Ok"
    /\ call.idx = call.pre.last_holder_revoked_commitment - 1
    /\ state.last_holder_revoked_commitment = call.idx

\* The last call was one of the two methods that sign a holder transaction.
SignedHolder == call.method \in {"sign_holder_commitment", "sign_holder_htlc_transaction"}

\* Its commitment number is one of the two below the last revoked number.
NextTwoUnrevoked ==
    \/ call.idx = call.pre.last_holder_revoked_commitment - 1
    \/ call.idx = call.pre.last_holder_revoked_commitment - 2

\* C2, as stated: sign_holder_commitment and sign_holder_htlc_transaction return
\* a signature for commitment number i only if i is one of the two numbers
\* below last_holder_revoked_commitment, and fault for every other i, so that a
\* revoked holder commitment is never signed.
C2_SignHolderOnlyNextTwoUnrevoked ==
    SignedHolder =>
        /\ call.result = "Ok" =>
              NextTwoUnrevoked /\ call.idx < state.last_holder_revoked_commitment
        /\ ~NextTwoUnrevoked => call.result = "Fault"

\* C2, amended: through a handle whose disable_revocation_policy_check is false
\* the two methods return a signature only if i is one of the two numbers below
\* last_holder_revoked_commitment (so never for a revoked commitment), and for
\* every other i they fault unless their SignerOp is disabled, when they return
\* Err.  (A handle built with the check disabled signs any number.)
C2_SignHolderPolicy ==
    (SignedHolder /\ ~call.self.disable_revocation_policy_check) =>
        /\ call.result = "Ok" =>
              NextTwoUnrevoked /\ call.idx < state.last_holder_revoked_commitment
        /\ (~NextTwoUnrevoked /\ ~CalledWhileDisabled) => call.result = "Fault"
        /\ CalledWhileDisabled => call.result = "Err"

\* C2, witness: after a revocation, a policy-checking handle signed the
\* commitment below the revoked one.
C2_Witness ==
    /\ SignedHolder
    /\ ~call.self.disable_revocation_policy_check
    /\ call.result = "Ok"
    /\ call.pre.last_holder_revoked_commitment < INITIAL_REVOKED_COMMITMENT_NUMBER
    /\ call.idx = call.pre.last_holder_revoked_commitment - 1

\* The last call was sign_counterparty_commitment with a number its two
\* assertions accept.
CounterpartySignPermitted ==
    /\ \/ call.idx = call.pre.last_counterparty_commitment
       \/ call.idx = call.pre.last_counterparty_commitment - 1
    /\ call.idx >= call.pre.last_counterparty_revoked_commitment - 2

\* last_counterparty_commitment is the smaller of what it was and the number signed.
CounterpartyCommitmentIsMin ==
    /\ state.last_counterparty_commitment <= call.pre.last_counterparty_commitment
    /\ state.last_counterparty_commitment <= call.idx
    /\ state.last_counterparty_commitment \in
          {call.pre.last_counterparty_commitment, call.idx}

\* C3, as stated: sign_counterparty_commitment for number i completes only if i
\* is last_counterparty_commitment or one less and
\* i >= last_counterparty_revoked_commitment - 2; otherwise it faults; on
\* success last_counterparty_commitment is min(last_counterparty_commitment, i).
C3_SignCounterpartyOtherwiseFaults ==
    call.method = "sign_counterparty_commitment" =>
        /\ ~CounterpartySignPermitted => call.result = "Fault"
        /\ call.result = "Ok" => CounterpartyCommitmentIsMin

\* C3, amended: sign_counterparty_commitment returns Ok only if i is
\* last_counterparty_commitment or one less and
\* i >= last_counterparty_revoked_commitment - 2, and then
\* last_counterparty_commitment is min(last_counterparty_commitment, i); for
\* every other i it faults unless SignCounterpartyCommitment is disabled, when
\* it does not return Ok and leaves the state as it was.
C3_SignCounterpartyGuard ==
    call.method = "sign_counterparty_commitment" =>
        /\ call.result = "Ok" => CounterpartySignPermitted /\ CounterpartyCommitmentIsMin
        /\ (~CounterpartySignPermitted /\ ~CalledWhileDisabled) => call.result = "Fault"
        /\ CalledWhileDisabled => call.result # "Ok" /\ state = call.pre

\* C3, witness: a counterparty commitment signed two below the last revocation,
\* the lowest number the second assertion lets through.
C3_Witness ==
    /\ call.method = "sign_counterparty_commitment"
    /\ call.result = "Ok"
    /\ call.idx = call.pre.last_counterparty_commitment - 1
    /\ call.idx = call.pre.last_counterparty_revoked_commitment - 2
    /\ state.last_counterparty_commitment = call.idx

RevocationValidationPermitted ==
    \/ call.idx = call.pre.last_counterparty_revoked_commitment
    \/ call.idx = call.pre.last_counterparty_revoked_commitment - 1

\* C5, as stated: validate_counterparty_revocation(i) completes only if i is
\* last_counterparty_revoked_commitment or one less, and then sets the counter
\* to i; any other i faults.
C5_ValidateRevocationAnyOtherFaults ==
    call.method = "validate_counterparty_revocation" =>
        /\ ~RevocationValidationPermitted => call.result = "Fault"
        /\ call.result = "Ok" => state.last_counterparty_revoked_commitment = call.idx

\* C5, amended: validate_counterparty_revocation(i) returns Ok only if i is
\* last_counterparty_revoked_commitment or one less, and then the counter is i;
\* any other i faults unless ValidateCounterpartyRevocation is disabled; while
\* it is disabled the call returns Err whatever i is and leaves the state as
\* it was.
C5_ValidateRevocationGuard ==
    call.method = "validate_counterparty_revocation" =>
        /\ call.result = "Ok" =>
              /\ RevocationValidationPermitted
              /\ state.last_counterparty_revoked_commitment = call.idx
        /\ (~RevocationValidationPermitted /\ ~CalledWhileDisabled) => call.result = "Fault"
        /\ CalledWhileDisabled => call.result = "Err" /\ state = call.pre

\* C5, witness: a validated revocation that moved the counter on by one.
C5_Witness ==
    /\ call.method = "validate_counterparty_revocation"
    /\ call.result = "Ok"
    /\ call.idx = call.pre.last_counterparty_revoked_commitment - 1
    /\ state.last_counterparty_revoked_commitment = call.idx

\* C6: every step of the signer leaves each of the four counters as it was or
\* one lower: no counter moves back, none skips a number.
C6_CountersStepByOne ==
    [][\A f \in CounterFields : state'[f] = state[f] \/ state'[f] = state[f] - 1]_vars

\* C6, witness: each of the four counters has moved.
C6_Witness ==
    \A f \in CounterFields : state[f] < INITIAL_REVOKED_COMMITMENT_NUMBER

\* C7: the last validated holder commitment is never revoked:
\* last_holder_commitment < last_holder_revoked_commitment, or both still have
\* the initial value.
C7_OneUnrevokedHolderCommitment ==
    \/ state.last_holder_commitment < state.last_holder_revoked_commitment
    \/ /\ state.last_holder_commitment = INITIAL_REVOKED_COMMITMENT_NUMBER
       /\ state.last_holder_revoked_commitment = INITIAL_REVOKED_COMMITMENT_NUMBER

\* C7, witness: a commitment has been revoked and the one validated last is
\* the very next.
C7_Witness ==
    /\ state.last_holder_revoked_commitment < INITIAL_REVOKED_COMMITMENT_NUMBER
    /\ state.last_holder_commitment = state.last_holder_revoked_commitment - 1
    /\ call.method = "release_commitment_secret"
    /\ call.result = "Ok"

\* C8: release_commitment_secret(i) never completes once sign_holder_commitment
\* or sign_holder_htlc_transaction has completed for the same number i.
C8_NeverRevokeWhatWasSigned ==
    (call.method = "release_commitment_secret" /\ call.result = "Ok") =>
        call.idx \notin holder_signed

\* C9: a number above the last revoked one (superseded by a later revocation)
\* is never released again, and a release never jumps over a number: such a
\* call does not return Ok and leaves the counter where it was.  With the
\* commitments numbered in the order they are made, the n-th is
\* INITIAL_REVOKED_COMMITMENT_NUMBER - n: after revoke(5), revoke(6) the counter
\* is INITIAL - 6, revoke(5) is stale and revoke(8) skips 7.
C9_NoStaleNoSkippedRevocation ==
    call.method = "release_commitment_secret" =>
        /\ (\/ call.idx > call.pre.last_holder_revoked_commitment
            \/ call.idx < call.pre.last_holder_revoked_commitment - 1) =>
              /\ call.result \in {"Fault", "Err"}
              /\ state.last_holder_revoked_commitment =
                    call.pre.last_holder_revoked_commitment
        /\ (call.pre.last_holder_revoked_commitment = INITIAL_REVOKED_COMMITMENT_NUMBER - 6
              /\ call.idx \in { INITIAL_REVOKED_COMMITMENT_NUMBER - 5,
                                INITIAL_REVOKED_COMMITMENT_NUMBER - 8 }) =>
              call.result \in {"Fault", "Err"}

\* C9, witness: with the sixth commitment revoked last, the fifth was asked
\* for again and the call faulted.
C9_Witness ==
    /\ call.method = "release_commitment_secret"
    /\ call.pre.last_holder_revoked_commitment = INITIAL_REVOKED_COMMITMENT_NUMBER - 6
    /\ call.idx = INITIAL_REVOKED_COMMITMENT_NUMBER - 5
    /\ call.result = "Fault"

\* C10: while a SignerOp is disabled, its method returns Err, never faults and
\* leaves the state as it was, whatever it is called with.
C10_DisabledOpReturnsErr ==
    CalledWhileDisabled => call.result = "Err" /\ state = call.pre

\* The last call was one of the six guarded methods, with a commitment number
\* that the method's guard rejects.
GuardViolated ==
    \/ call.method = "release_commitment_secret" /\ ~RevocationPermitted
    \/ /\ call.method = "validate_holder_commitment"
       /\ call.idx # call.pre.last_holder_commitment
       /\ call.idx # call.pre.last_holder_commitment - 1
    \/ call.method = "validate_counterparty_revocation" /\ ~RevocationValidationPermitted
    \/ call.method = "sign_counterparty_commitment" /\ ~CounterpartySignPermitted
    \/ SignedHolder /\ ~NextTwoUnrevoked

\* C11, as stated: a call of one of the six guarded methods whose commitment
\* number violates the guard faults (no Err, no success), changes no counter
\* and does not reach the wrapped signer.
C11_ViolatedGuardIsFatal ==
    GuardViolated =>
        /\ call.result = "Fault"
        /\ \A f \in CounterFields : state[f] = call.pre[f]
        /\ ~call.inner_called

\* C11, amended: a call whose commitment number violates the guard changes no
\* counter; unless it is a holder signing through a handle whose
\* disable_revocation_policy_check is set (which is not held to the guard), it
\* never succeeds and never reaches the wrapped signer, and it faults except
\* when the method's SignerOp is disabled, when it may return Err instead.
C11_ViolatedGuardNeverSucceeds ==
    GuardViolated =>
        /\ \A f \in CounterFields : state[f] = call.pre[f]
        /\ CalledWhileDisabled => ~call.inner_called
        /\ ~(SignedHolder /\ call.self.disable_revocation_policy_check) =>
              /\ call.result # "Ok"
              /\ ~call.inner_called
              /\ ~CalledWhileDisabled => call.result = "Fault"

\* C11, witness: a counterparty commitment that comes next but is more than
\* two below the last revocation was refused with a fault.
C11_Witness ==
    /\ call.method = "sign_counterparty_commitment"
    /\ call.idx = call.pre.last_counterparty_commitment - 1
    /\ call.idx < call.pre.last_counterparty_revoked_commitment - 2
    /\ ~CalledWhileDisabled
    /\ call.result = "Fault"
    /\ ~call.inner_called
    /\ state = call.pre

(***************************************************************************)
(* The properties of the transaction builder.  `args` is the call made,    *)
(* `ret` what it returned.                                                 *)
(***************************************************************************)

\* A call of fn that has returned.
Returned(fn) == args.fn = fn /\ ret.result = "Ok"

\* The fee an HTLC has to pay for besides the dust limit: nothing with zero-fee
\* HTLC transactions, else the fee of its HTLC-timeout transaction when the
\* broadcaster offered it and of its HTLC-success transaction when it received it.
FeeContribution(channel_type, feerate_per_kw, offered_by_broadcaster) ==
    IF zero_fee_htlc_transactions(channel_type) THEN 0
    ELSE IF offered_by_broadcaster
        THEN (feerate_per_kw * htlc_timeout_tx_weight(channel_type)) \div 1000
    ELSE (feerate_per_kw * htlc_success_tx_weight(channel_type)) \div 1000

C14_DustThreshold ==
    /\ Returned("HTLCAmountDirection::is_dust") =>
          \E T \in DustAmountsMsat :
              /\ ret.value = (args.self.amount_msat < T)
              /\ \A b \in DustAmountsMsat :
                    HTLCAmountDirection_is_dust([args.self EXCEPT !.amount_msat = b],
                        args.local, args.feerate_per_kw,
                        args.broadcaster_dust_limit_satoshis, args.channel_type)
                      = (b < T)
    /\ Returned("is_dust") =>
          \E T \in DustAmountsMsat :
              /\ ret.value = (args.amount_msat < T)
              /\ \A b \in DustAmountsMsat :
                    is_dust(args.offered, b, args.feerate_per_kw,
                        args.broadcaster_dust_limit_satoshis, args.channel_type)
                      = (b < T)

\* An offered HTLC of exactly 354 + 1657 sat at feerate 2500 is kept, and
\* one a millisatoshi smaller is dust.
C14_Witness ==
    /\ Returned("is_dust")
    /\ args.offered
    /\ args.amount_msat = 2011000
    /\ args.feerate_per_kw = 2500
    /\ args.broadcaster_dust_limit_satoshis = 354
    /\ ~zero_fee_htlc_transactions(args.channel_type)
    /\ ~ret.value
    /\ is_dust(args.offered, args.amount_msat - 1, args.feerate_per_kw,
               args.broadcaster_dust_limit_satoshis, args.channel_type)

\* What get_next_commitment_stats returns for the arguments of the call with
\* n additional HTLCs.
StatsWithAddl(n) ==
    get_next_commitment_stats(args.local, args.is_outbound_from_holder,
        args.channel_value_satoshis, args.value_to_holder_msat,
        args.next_commitment_htlcs, n, args.feerate_per_kw,
        args.dust_exposure_limiting_feerate, args.broadcaster_dust_limit_satoshis,
        args.channel_type)

\* C15: the commitment fee does not go down when the number of non-dust HTLCs
\* grows at a fixed feerate, nor when the feerate grows at a fixed number; and
\* the fee in the statistics of the next commitment does not go down when the
\* number of additional HTLCs grows.
C15_FeeMonotone ==
    /\ Returned("commit_tx_fee_sat") =>
          /\ \A n \in 0..(MaxHtlcs + MaxAddlHtlcs) :
                n >= args.nondust_htlc_count =>
                    SpecTxBuilder_commit_tx_fee_sat(args.feerate_per_kw, n, args.channel_type)
                        >= ret.value
          /\ \A f \in FeeratesOf(args.channel_type) \cup {0} :
                f >= args.feerate_per_kw =>
                    SpecTxBuilder_commit_tx_fee_sat(f, args.nondust_htlc_count,
                                                    args.channel_type)
                        >= ret.value
    /\ Returned("get_next_commitment_stats") =>
          \A n \in 0..MaxAddlHtlcs :
              n >= args.addl_nondust_htlc_count =>
                  /\ StatsWithAddl(n).result = "Ok"
                  /\ StatsWithAddl(n).commit_tx_fee_sat >= ret.commit_tx_fee_sat

\* The statistics with a non-dust HTLC and one additional HTLC: the fee is
\* above the fee without the additional one.
C15_Witness ==
    /\ Returned("get_next_commitment_stats")
    /\ args.addl_nondust_htlc_count = 1
    /\ ret.nondust_htlc_count >= 2
    /\ ret.commit_tx_fee_sat > StatsWithAddl(0).commit_tx_fee_sat

\* The HTLCs of the call that the builder keeps, and the sum of a list of
\* HTLCs in whole satoshis, each amount rounded down.
KeptHtlcs == ret.tx.nondust_htlcs

RECURSIVE SumSat(_)
SumSat(htlcs) ==
    IF htlcs = <<>> THEN 0 ELSE Head(htlcs).amount_msat \div 1000 + SumSat(Tail(htlcs))

\* The value of the anchors of the channel of the call.
AnchorsSat ==
    IF args.channel_parameters.channel_type_features.anchors_zero_fee_htlc_tx
    THEN 2 * ANCHOR_OUTPUT_VALUE_SATOSHI ELSE 0

\* What the outputs of the commitment built, its fee and its anchors add up to.
BuiltTotalSat ==
    ret.tx.to_broadcaster_value_sat + ret.tx.to_countersignatory_value_sat
      + SumSat(KeptHtlcs) + ret.stats.commit_tx_fee_sat + AnchorsSat

\* The balance of the funder before the fee, in whole satoshis.
FunderBeforeFeeSat ==
    IF args.channel_parameters.is_outbound_from_holder
    THEN ret.stats.local_balance_before_fee_msat \div 1000
    ELSE ret.stats.remote_balance_before_fee_msat \div 1000

\* Nothing of the channel's value is left out of the commitment built: no
\* HTLC is trimmed, no main output is set to 0, the funder can pay the fee.
NothingLeftOut ==
    /\ Len(KeptHtlcs) = Len(args.htlcs_in_tx)
    /\ ret.tx.to_broadcaster_value_sat
          = (IF args.local THEN ret.value_to_self ELSE ret.value_to_remote)
    /\ ret.tx.to_countersignatory_value_sat
          = (IF args.local THEN ret.value_to_remote ELSE ret.value_to_self)
    /\ FunderBeforeFeeSat >= ret.stats.commit_tx_fee_sat

\* The most the roundings down to whole satoshis can lose: less than a satoshi
\* for each balance and each HTLC, and a whole number of satoshis in all.
RoundingTolerance == Len(KeptHtlcs) + 1

\* C16 as stated: the two main outputs, the non-dust HTLCs, the fee and the
\* anchors of every commitment built add up to the channel value, up to rounding.
C16_BalanceConservation ==
    Returned("build_commitment_transaction") =>
        /\ BuiltTotalSat <= args.channel_parameters.channel_value_satoshis
        /\ BuiltTotalSat >= args.channel_parameters.channel_value_satoshis - RoundingTolerance

\* C16: they add up to the channel value, up to rounding, when no HTLC is
\* trimmed, no main output is set to 0 and the funder can pay the fee; and in
\* every commitment built the outputs, the non-dust HTLCs and the anchors add
\* up to no more than the channel value.
C16_ConservationUnlessTrimmed ==
    Returned("build_commitment_transaction") =>
        /\ NothingLeftOut =>
              /\ BuiltTotalSat <= args.channel_parameters.channel_value_satoshis
              /\ BuiltTotalSat
                    >= args.channel_parameters.channel_value_satoshis - RoundingTolerance
        /\ BuiltTotalSat - ret.stats.commit_tx_fee_sat
              <= args.channel_parameters.channel_value_satoshis

\* A commitment with one HTLC of 2050.999 sat, kept, both main outputs kept
\* and the fee paid: a satoshi is lost to rounding and nothing else.
C16_Witness ==
    /\ Returned("build_commitment_transaction")
    /\ NothingLeftOut
    /\ Len(KeptHtlcs) = 1
    /\ ret.tx.to_broadcaster_value_sat > 0
    /\ ret.tx.to_countersignatory_value_sat > 0
    /\ BuiltTotalSat = args.channel_parameters.channel_value_satoshis - 1

\* The HTLCs the holder offered and those the counterparty offered, summed
\* in msat: an HTLC of the transaction is the holder's when the broadcaster
\* offered it and the holder is the broadcaster, or neither.
HolderOffered(htlc) == htlc.offered = args.local

CounterpartyOffered(htlc) == htlc.offered # args.local

HolderHtlcTotalMsat == SumAmounts(SelectSeq(args.htlcs_in_tx, HolderOffered))

CounterpartyHtlcTotalMsat == SumAmounts(SelectSeq(args.htlcs_in_tx, CounterpartyOffered))

ChannelValueMsat == args.channel_parameters.channel_value_satoshis * 1000

\* C17: the build faults when the HTLCs of the holder sum to more than
\* value_to_self_msat, when value_to_self_msat is more than the channel holds,
\* and when the HTLCs of the counterparty sum to more than its balance; when it
\* returns, each balance before the fee is the raw balance less the HTLCs that
\* party offered, and less the anchors for the funder.
C17_HtlcsCheckedOff ==
    (args.fn = "build_commitment_transaction" /\ ret # Pending) =>
        /\ ( \/ HolderHtlcTotalMsat > args.value_to_self_msat
             \/ args.value_to_self_msat > ChannelValueMsat
             \/ CounterpartyHtlcTotalMsat > ChannelValueMsat - args.value_to_self_msat )
              => ret.result = "Fault"
        /\ ret.result = "Ok" =>
              /\ ret.stats.local_balance_before_fee_msat >= 0
              /\ ret.stats.remote_balance_before_fee_msat >= 0
              /\ ret.stats.local_balance_before_fee_msat
                    = args.value_to_self_msat - HolderHtlcTotalMsat
                        - (IF args.channel_parameters.is_outbound_from_holder
                           THEN AnchorsSat * 1000 ELSE 0)
              /\ ret.stats.remote_balance_before_fee_msat
                    = ChannelValueMsat - args.value_to_self_msat - CounterpartyHtlcTotalMsat
                        - (IF args.channel_parameters.is_outbound_from_holder
                           THEN 0 ELSE AnchorsSat * 1000)

\* A build with the holder's balance below the HTLCs it offered: it faults.
C17_Witness ==
    /\ args.fn = "build_commitment_transaction"
    /\ ret.result = "Fault"
    /\ args.value_to_self_msat > 0
    /\ args.value_to_self_msat <= ChannelValueMsat
    /\ HolderHtlcTotalMsat > args.value_to_self_msat
    /\ CounterpartyHtlcTotalMsat = 0

\* The balances of the funder and of the other party once the HTLCs are off.
HolderAfterHtlcsMsat == args.value_to_self_msat - HolderHtlcTotalMsat

CounterpartyAfterHtlcsMsat ==
    ChannelValueMsat - args.value_to_self_msat - CounterpartyHtlcTotalMsat

\* The build gets past the subtraction of the HTLCs.
HtlcsCovered ==
    /\ args.value_to_self_msat <= ChannelValueMsat
    /\ HolderAfterHtlcsMsat >= 0
    /\ CounterpartyAfterHtlcsMsat >= 0

\* C18: the anchors come off the balance of the funder only, saturating at 0:
\* a build that gets past the HTLCs returns, with the balance of the funder
\* before the fee at its balance after the HTLCs less the anchors, or at 0 when
\* that is less than the anchors, and the balance of the other party as it was.
C18_AnchorsSaturate ==
    (args.fn = "build_commitment_transaction" /\ ret # Pending /\ HtlcsCovered) =>
        /\ ret.result = "Ok"
        /\ IF args.channel_parameters.is_outbound_from_holder
           THEN /\ ret.stats.local_balance_before_fee_msat
                      = saturating_sub(HolderAfterHtlcsMsat, AnchorsSat * 1000)
                /\ ret.stats.remote_balance_before_fee_msat = CounterpartyAfterHtlcsMsat
           ELSE /\ ret.stats.local_balance_before_fee_msat = HolderAfterHtlcsMsat
                /\ ret.stats.remote_balance_before_fee_msat
                      = saturating_sub(CounterpartyAfterHtlcsMsat, AnchorsSat * 1000)

\* The balance of the party that does not fund the channel before the fee, in
\* whole satoshis, and the values of the two parties after the fee.
NonFunderBeforeFeeSat ==
    IF args.channel_parameters.is_outbound_from_holder
    THEN ret.stats.remote_balance_before_fee_msat \div 1000
    ELSE ret.stats.local_balance_before_fee_msat \div 1000

FunderValueSat ==
    IF args.channel_parameters.is_outbound_from_holder
    THEN ret.value_to_self ELSE ret.value_to_remote

NonFunderValueSat ==
    IF args.channel_parameters.is_outbound_from_holder
    THEN ret.value_to_remote ELSE ret.value_to_self

\* C19: the fee comes off the balance of the funder only, saturating at 0: the
\* value of the funder is its balance before the fee less the fee, and 0 when
\* the fee is larger; the value of the other party is its balance before the
\* fee in whole satoshis; and no build faults on the fee.
C19_FeeOffFunderSaturating ==
    /\ Returned("build_commitment_transaction") =>
          /\ FunderValueSat
                = (IF ret.stats.commit_tx_fee_sat > FunderBeforeFeeSat THEN 0
                   ELSE FunderBeforeFeeSat - ret.stats.commit_tx_fee_sat)
          /\ NonFunderValueSat = NonFunderBeforeFeeSat
    /\ (/\ args.fn = "build_commitment_transaction"
        /\ ret.result = "Fault"
        /\ HtlcsCovered)
          => (IF args.channel_parameters.is_outbound_from_holder
              THEN HolderAfterHtlcsMsat ELSE CounterpartyAfterHtlcsMsat)
                < AnchorsSat * 1000

\* A commitment of a channel the counterparty funds, with a fee above its
\* balance: the counterparty is left with 0 and the holder with all it had.
C19_Witness ==
    /\ Returned("build_commitment_transaction")
    /\ ~args.channel_parameters.is_outbound_from_holder
    /\ FunderBeforeFeeSat > 0
    /\ ret.stats.commit_tx_fee_sat > FunderBeforeFeeSat
    /\ ret.value_to_remote = 0
    /\ ret.value_to_self = ret.stats.local_balance_before_fee_msat \div 1000
    /\ ret.value_to_self > 0

\* The values of the broadcaster and of the countersignatory after the fee.
BroadcasterValueSat == IF args.local THEN ret.value_to_self ELSE ret.value_to_remote

CountersignatoryValueSat == IF args.local THEN ret.value_to_remote ELSE ret.value_to_self

\* value when it is at least limit, and 0 below it
ZeroedBelow(value, limit) == IF value >= limit THEN value ELSE 0

\* C20 as stated: the main output of the broadcaster is its value after the
\* fee when that is at least the dust limit of the broadcaster and 0 below it,
\* and the main output of the countersignatory is its value after the fee when
\* that is at least the dust limit of the countersignatory and 0 below it.
C20_MainOutputsOwnDustLimit ==
    Returned("build_commitment_transaction") =>
        /\ ret.tx.to_broadcaster_value_sat
              = ZeroedBelow(BroadcasterValueSat, args.broadcaster_dust_limit_satoshis)
        /\ ret.tx.to_countersignatory_value_sat
              = ZeroedBelow(CountersignatoryValueSat,
                            args.countersignatory_dust_limit_satoshis)

\* C20: both main outputs are measured against the dust limit of the
\* broadcaster: each is the party's value after the fee when that is at least
\* the limit and 0 below it, so that none lies strictly between 0 and the limit.
C20_MainOutputsBroadcasterDustLimit ==
    Returned("build_commitment_transaction") =>
        /\ ret.tx.to_broadcaster_value_sat
              = ZeroedBelow(BroadcasterValueSat, args.broadcaster_dust_limit_satoshis)
        /\ ret.tx.to_countersignatory_value_sat
              = ZeroedBelow(CountersignatoryValueSat, args.broadcaster_dust_limit_satoshis)
        /\ ret.tx.to_broadcaster_value_sat \notin
              1..(args.broadcaster_dust_limit_satoshis - 1)
        /\ ret.tx.to_countersignatory_value_sat \notin
              1..(args.broadcaster_dust_limit_satoshis - 1)

\* A commitment that leaves the countersignatory 400 sat, above its own dust
\* limit of 354 sat and below the broadcaster's of 546 sat: its output is 0.
C20_Witness ==
    /\ Returned("build_commitment_transaction")
    /\ args.broadcaster_dust_limit_satoshis = 546
    /\ args.countersignatory_dust_limit_satoshis = 354
    /\ CountersignatoryValueSat = 400
    /\ ret.tx.to_countersignatory_value_sat = 0
    /\ ret.tx.to_broadcaster_value_sat >= 546

(***************************************************************************)
(* The property of the signer called from several threads.                 *)
(***************************************************************************)

\* The threads that hold the lock: between taking it and dropping the guard.
UnderLock == { t \in Threads : threads[t].pc \in {"locked", "checked", "assigned"} }

\* A step leaves each counter where it is or one lower.
CountersStepDown ==
    \A f \in CounterFields : state'[f] = state[f] \/ state'[f] = state[f] - 1

\* C12: called from several threads through handles on one EnforcementState,
\* the assert!s of a call and its assignment run as one step under the mutex:
\* at most one thread is between them at a time, the counters are at every
\* moment those the same calls leave when made one after the other, each
\* passing or failing its assert!s as it does there, and no step moves a
\* counter back or past an index.
C12_GuardAndUpdateAtomic ==
    /\ [](/\ Cardinality(UnderLock) <= 1
          /\ serial.ok
          /\ \A f \in CounterFields : state[f] = serial.state[f])
    /\ [][CountersStepDown]_vars

\* The second thread waits for the lock while the first, which took it after
\* the second advanced a counter, has passed its assert!s on the new value.
C12_Witness ==
    /\ threads["t1"].pc = "checked"
    /\ threads["t2"].pc = "lock"
    /\ mutex = "t1"
    /\ threads["t2"].calls >= 1
    /\ threads["t1"].method = "validate_counterparty_revocation"
    /\ threads["t2"].method = "validate_counterparty_revocation"
    /\ state.last_counterparty_revoked_commitment = INITIAL_REVOKED_COMMITMENT_NUMBER - 1
    /\ threads["t1"].idx = INITIAL_REVOKED_COMMITMENT_NUMBER - 2
    /\ threads["t2"].idx = INITIAL_REVOKED_COMMITMENT_NUMBER - 1

(***************************************************************************)
(* The HTLCs of the commitment built.                                      *)
(***************************************************************************)

\* An HTLC of the call is not dust at the feerate and the dust limit of the
\* broadcaster given to the call.
NotDustInCall(htlc) ==
    htlc.amount_msat \div 1000
        >= args.broadcaster_dust_limit_satoshis
            + FeeContribution(args.channel_parameters.channel_type_features,
                              args.feerate_per_kw, htlc.offered)

\* The fee of a commitment with n HTLC outputs on the channel of the call:
\* the weight of the transaction at the feerate, rounded down.
FeeForOutputs(n) ==
    (args.feerate_per_kw
        * (commitment_tx_base_weight(args.channel_parameters.channel_type_features)
            + n * COMMITMENT_TX_WEIGHT_PER_HTLC)) \div 1000

\* C21: the HTLCs build_commitment_transaction hands to the commitment
\* transaction are the HTLCs of the call that are not dust, in their order,
\* and the fee it reports is the fee for that many HTLC outputs.
C21_NonDustHtlcsKept ==
    Returned("build_commitment_transaction") =>
        /\ KeptHtlcs = SelectSeq(args.htlcs_in_tx, NotDustInCall)
        /\ ret.stats.commit_tx_fee_sat = FeeForOutputs(Len(KeptHtlcs))

\* A build that trims the first of two HTLCs and keeps the second: one HTLC
\* output, and the fee for one.
C21_Witness ==
    /\ Returned("build_commitment_transaction")
    /\ Len(args.htlcs_in_tx) = 2
    /\ ~NotDustInCall(args.htlcs_in_tx[1])
    /\ KeptHtlcs = <<args.htlcs_in_tx[2]>>
    /\ ret.stats.commit_tx_fee_sat = FeeForOutputs(1)
    /\ ret.stats.commit_tx_fee_sat > FeeForOutputs(0)

(***************************************************************************)
(* The properties of the estimator.                                        *)
(***************************************************************************)

\* A call of fn that is over, whatever came of it.
Called(fn) == args.fn = fn /\ ret # Pending

\* The HTLCs pending in the call of get_available_balances that the holder
\* sends and those it receives, summed in msat.
OutboundHtlc(htlc) == htlc.outbound

InboundHtlc(htlc) == ~htlc.outbound

PendingOutboundMsat == SumAmounts(SelectSeq(args.pending_htlcs, OutboundHtlc))

PendingInboundMsat == SumAmounts(SelectSeq(args.pending_htlcs, InboundHtlc))

\* The two anchors on the channel type of the call, in msat.
EstimatorAnchorsMsat ==
    IF args.channel_type.anchors_zero_fee_htlc_tx
    THEN 2 * ANCHOR_OUTPUT_VALUE_SATOSHI * 1000 ELSE 0

\* The inputs of the call are inconsistent: value_to_holder_msat is more than
\* the channel holds, the HTLCs of a party are more than its balance, or the
\* funder cannot cover the anchors.
InconsistentInputs ==
    LET channel_msat == args.channel_value_satoshis * 1000
    IN  \/ args.value_to_holder_msat > channel_msat
        \/ PendingOutboundMsat > args.value_to_holder_msat
        \/ PendingInboundMsat > channel_msat - args.value_to_holder_msat
        \/ /\ args.is_outbound_from_holder
           /\ args.value_to_holder_msat - PendingOutboundMsat < EstimatorAnchorsMsat
        \/ /\ ~args.is_outbound_from_holder
           /\ channel_msat - args.value_to_holder_msat - PendingInboundMsat
                 < EstimatorAnchorsMsat

\* What get_next_commitment_stats returns on the inputs of the call of
\* get_available_balances, for the commitment of the holder (local) or of the
\* counterparty, each with the dust limit of its broadcaster.
EstimatorStats(local, addl_nondust_htlc_count) ==
    get_next_commitment_stats(local, args.is_outbound_from_holder,
        args.channel_value_satoshis, args.value_to_holder_msat, args.pending_htlcs,
        addl_nondust_htlc_count, args.feerate_per_kw, args.dust_exposure_limiting_feerate,
        IF local THEN args.holder_channel_constraints.dust_limit_satoshis
        ELSE args.counterparty_channel_constraints.dust_limit_satoshis,
        args.channel_type)

\* C22 as stated: on inconsistent inputs get_next_commitment_stats returns Err
\* and get_available_balances does not fault.
C22_EstimatorTypedFailure ==
    (Called("get_available_balances") /\ InconsistentInputs) =>
        /\ EstimatorStats(TRUE, 1).result = "Err"
        /\ EstimatorStats(FALSE, 1).result = "Err"
        /\ ret.result # "Fault"

\* C23 as stated: no step of the estimator wraps around or overflows: a call
\* that returns has wrapped nowhere, and no call faults but on the inconsistent
\* inputs on which the statistics fail.
C23_NoWrapAround ==
    Called("get_available_balances") =>
        /\ ret.result = "Ok" => ~ret.wrapped
        /\ ret.result = "Fault" => InconsistentInputs

\* The larger of 2530 and of a quarter of the feerate of the call, rounded
\* down: what the larger of feerate + 2530 and of feerate * 1.25, rounded
\* down, is above the feerate.
BufferAboveFeerate ==
    IF 2530 >= args.feerate_per_kw \div 4 THEN 2530 ELSE args.feerate_per_kw \div 4

\* C24 as stated: for every feerate the dust buffer feerate is the larger of
\* feerate + 2530 and of feerate * 1.25 rounded down, and not below the feerate.
C24_DustBufferFeerateEverywhere ==
    Returned("get_dust_buffer_feerate") =>
        /\ ret.value - args.feerate_per_kw = BufferAboveFeerate
        /\ ret.value >= args.feerate_per_kw

\* C24: it is so for every feerate whose product with 1250 fits the word;
\* for every larger feerate the dust buffer feerate is the largest value of
\* the word; and it is never below the feerate.
C24_DustBufferFeerate ==
    Returned("get_dust_buffer_feerate") =>
        /\ args.feerate_per_kw <= u32_MAX \div 1250 =>
              ret.value - args.feerate_per_kw = BufferAboveFeerate
        /\ args.feerate_per_kw > u32_MAX \div 1250 => ret.value = u32_MAX
        /\ ret.value >= args.feerate_per_kw

\* A feerate whose quarter is above 2530 and is rounded down.
C24_Witness ==
    /\ Returned("get_dust_buffer_feerate")
    /\ args.feerate_per_kw = 10127
    /\ ret.value = 12658
    /\ ret.value > args.feerate_per_kw + 2530

\* What the counterparty still lets be in flight: the most it lets be in
\* flight less the HTLCs the holder has pending, 0 when they are more.
InFlightLeftMsat ==
    saturating_sub(args.counterparty_channel_constraints.max_htlc_value_in_flight_msat,
                   PendingOutboundMsat)

\* One more HTLC is more than the counterparty accepts.
OneMoreThanAccepted ==
    Len(SelectSeq(args.pending_htlcs, OutboundHtlc)) + 1
        > args.counterparty_channel_constraints.max_accepted_htlcs

\* C25 as stated: next_outbound_htlc_limit_msat is never above what the
\* counterparty still lets be in flight, and is 0 when one more HTLC is more
\* than it accepts.
C25_LimitWithinInFlight ==
    Returned("get_available_balances") =>
        /\ ret.next_outbound_htlc_limit_msat <= InFlightLeftMsat
        /\ OneMoreThanAccepted => ret.next_outbound_htlc_limit_msat = 0

\* The dust exposure of the next commitment of the holder (local) and of the
\* counterparty, at the dust buffer feerate.
DustExposureMsat(local) == EstimatorStats(local, 1).dust_exposure_msat

\* The buffered dust threshold in msat, for the HTLC to send: on the commitment
\* of the holder it is one it offers (HTLC-timeout), on the commitment of the
\* counterparty one it receives (HTLC-success), each at the dust buffer
\* feerate and over the dust limit of its broadcaster.
BufferedDustThresholdMsat(local) ==
    ((IF local THEN args.holder_channel_constraints.dust_limit_satoshis
      ELSE args.counterparty_channel_constraints.dust_limit_satoshis)
        + FeeContribution(args.channel_type, get_dust_buffer_feerate(args.feerate_per_kw),
                          local)) * 1000

\* The exposure of that commitment with one more HTLC right below the
\* threshold would be above max_dust_htlc_exposure_msat.
CloseToDustExposureLimit(local) ==
    DustExposureMsat(local) + BufferedDustThresholdMsat(local) - 1
        > args.max_dust_htlc_exposure_msat

CloseCommitments == { local \in BOOLEAN : CloseToDustExposureLimit(local) }

\* What is left below max_dust_htlc_exposure_msat on a commitment.
ExposureLeftMsat(local) ==
    saturating_sub(args.max_dust_htlc_exposure_msat, DustExposureMsat(local))

\* The capacity the estimator had found before it looked at the dust exposure
\* and the one it left, and the minimum when the call began.
CapacityBeforeMsat == ret.dust_exposure.capacity_msat

CapacityLimitedMsat == ret.dust_exposure.limited_msat

MinimumBeforeMsat == args.counterparty_channel_constraints.htlc_minimum_msat

\* The capacity is below the buffered dust threshold of a commitment close to
\* the limit.
BelowBufferedThreshold ==
    \E local \in CloseCommitments : CapacityBeforeMsat < BufferedDustThresholdMsat(local)

\* The limit is cut to what is left of the exposure, the minimum is raised to
\* the buffered dust threshold.
LimitClamped ==
    \A local \in CloseCommitments :
        /\ CapacityLimitedMsat <= ExposureLeftMsat(local)
        /\ ret.next_outbound_htlc_limit_msat <= ExposureLeftMsat(local)

MinimumRaised ==
    \A local \in CloseCommitments :
        ret.next_outbound_htlc_minimum_msat >= BufferedDustThresholdMsat(local)

\* The most that can be sent between a minimum and a limit.
Usable(minimum_msat, limit_msat) == IF minimum_msat <= limit_msat THEN limit_msat ELSE 0

\* What each of the two choices would leave usable.
UsableClamped ==
    Usable(MinimumBeforeMsat,
           LET left == CHOOSE l \in { ExposureLeftMsat(local) : local \in CloseCommitments } :
                          \A local \in CloseCommitments : l <= ExposureLeftMsat(local)
           IN  IF CapacityBeforeMsat <= left THEN CapacityBeforeMsat ELSE left)

UsableRaised ==
    Usable(LET threshold ==
                   CHOOSE t \in { BufferedDustThresholdMsat(local) : local \in CloseCommitments } :
                       \A local \in CloseCommitments : t >= BufferedDustThresholdMsat(local)
           IN  IF MinimumBeforeMsat >= threshold THEN MinimumBeforeMsat ELSE threshold,
           CapacityBeforeMsat)

PreservesMoreUsableCapacity ==
    /\ Usable(ret.next_outbound_htlc_minimum_msat, CapacityLimitedMsat) >= UsableClamped
    /\ Usable(ret.next_outbound_htlc_minimum_msat, CapacityLimitedMsat) >= UsableRaised

\* C26 as stated: close to the limit of the dust exposure the estimator
\* clamps the limit when the capacity is below the buffered dust threshold and
\* raises the minimum otherwise, never leaves both as they were, and makes
\* the choice that preserves more usable capacity.
C26_ClampOrRaiseNeverNeither ==
    (Returned("get_available_balances") /\ CloseCommitments # {}) =>
        /\ BelowBufferedThreshold => LimitClamped
        /\ ~BelowBufferedThreshold => MinimumRaised
        /\ ~ /\ CapacityLimitedMsat = CapacityBeforeMsat
             /\ ret.next_outbound_htlc_minimum_msat = MinimumBeforeMsat
        /\ PreservesMoreUsableCapacity

\* C26: close to the limit of the dust exposure the estimator clamps the limit
\* when the capacity is below the buffered dust threshold, leaving the minimum,
\* and raises the minimum otherwise, leaving the capacity; the choice made
\* preserves more usable capacity.  A limit already within what is left of the
\* exposure stays as it was.
C26_ClampOrRaise ==
    (Returned("get_available_balances") /\ CloseCommitments # {}) =>
        /\ BelowBufferedThreshold =>
              /\ LimitClamped
              /\ ret.next_outbound_htlc_minimum_msat = MinimumBeforeMsat
        /\ ~BelowBufferedThreshold =>
              /\ MinimumRaised
              /\ CapacityLimitedMsat = CapacityBeforeMsat
        /\ PreservesMoreUsableCapacity

\* A call close to the limit whose capacity, below the buffered dust
\* threshold, is cut to what is left of the exposure.
C26_Witness ==
    /\ Returned("get_available_balances")
    /\ CloseCommitments # {}
    /\ BelowBufferedThreshold
    /\ CapacityBeforeMsat > 0
    /\ CapacityLimitedMsat < CapacityBeforeMsat
    /\ \E local \in CloseCommitments : CapacityLimitedMsat = ExposureLeftMsat(local)

(***************************************************************************)
(* The properties of the shared anchor.                                    *)
(***************************************************************************)

\* The vectors of test_p2a_anchor_values_under_trims_and_rounds: the payments
\* from node 0 to node 1, those back, and the value both anchors have.
P2aVectors ==
    { <<(<<1>>), <<>>, 1>>, <<(<<238000>>), <<>>, 238>>, <<(<<238001>>), <<>>, 239>>,
      <<(<<240000>>), <<>>, 240>>, <<(<<240001>>), <<>>, 240>>,
      <<(<<353000>>), <<>>, 240>>, <<(<<353999>>), <<>>, 240>>,
      <<(<<354000>>), <<>>, 0>>, <<(<<354001>>), <<>>, 1>>,
      <<(<<1, 1>>), <<>>, 1>>, <<(<<1, 999>>), <<>>, 1>>, <<(<<1, 1000>>), <<>>, 2>>,
      <<(<<354001, 999>>), <<>>, 1>>, <<(<<354001, 1000>>), <<>>, 2>>,
      <<(<<354001, 1999>>), <<>>, 2>>, <<(<<354002, 1999>>), <<>>, 3>>,
      <<(<<1>>), (<<1>>), 2>>, <<(<<1>>), (<<999>>), 2>>, <<(<<1>>), (<<1000>>), 2>>,
      <<(<<354001>>), (<<999>>), 2>>, <<(<<354001>>), (<<1000>>), 2>>,
      <<(<<354001>>), (<<1999>>), 3>>, <<(<<354002>>), (<<1999>>), 3>>,
      <<(<<353000>>), (<<353000>>), 240>>, <<(<<353001>>), (<<353000>>), 240>>,
      <<(<<353000>>), (<<353001>>), 240>>, <<(<<353001>>), (<<353001>>), 240>> }

\* What the trimmed payments (below 354 sat) and the remainders of the floor
\* divisions come to: the whole of a trimmed payment, and of a payment that
\* has an output and of either balance what is left of a whole satoshi.
RECURSIVE TrimmedMsat(_)
TrimmedMsat(amt_msat) ==
    IF amt_msat = <<>> THEN 0
    ELSE (IF Head(amt_msat) < 354 * 1000 THEN Head(amt_msat) ELSE (Head(amt_msat) % 1000))
            + TrimmedMsat(Tail(amt_msat))

RECURSIVE RoutedMsat(_)
RoutedMsat(amt_msat) ==
    IF amt_msat = <<>> THEN 0 ELSE Head(amt_msat) + RoutedMsat(Tail(amt_msat))

TrimmedAndRoundedSat ==
    LET half_msat == (args.channel_value_satoshis \div 2) * 1000
        node_0_msat == half_msat - RoutedMsat(args.node_0_1_amt_msat)
        node_1_msat == args.channel_value_satoshis * 1000 - half_msat
                            - RoutedMsat(args.node_1_0_amt_msat)
    IN  ((node_0_msat % 1000) + (node_1_msat % 1000)
            + TrimmedMsat(args.node_0_1_amt_msat \o args.node_1_0_amt_msat)) \div 1000

\* What the outputs of a commitment transaction leave of the channel.
LeftOfChannelSat(tx) ==
    args.channel_value_satoshis - tx.to_broadcaster_value_sat
        - tx.to_countersignatory_value_sat - SumSat(tx.nondust_htlcs)

\* C27: on a channel with zero-fee commitments, whatever payments are pending
\* in either direction, the local commitments of both nodes carry a shared
\* anchor of the same value, min(240, channel value - the two balance outputs
\* - the outputs of the HTLCs that are not dust): the trimmed payments and the
\* remainders of the floor divisions, up to 240 sat; and the value is the one
\* the test expects for each of its vectors.
C27_SharedAnchorValue ==
    (Called("p2a_value_test")) =>
        /\ ret.result = "Ok"
        /\ ret.node_0 = ret.node_1
        /\ ret.node_0 = cmp_min(240, LeftOfChannelSat(ret.node_0_tx))
        /\ ret.node_1 = cmp_min(240, LeftOfChannelSat(ret.node_1_tx))
        /\ ret.node_0 = cmp_min(240, TrimmedAndRoundedSat)
        /\ \A v \in P2aVectors :
              (args.node_0_1_amt_msat = v[1] /\ args.node_1_0_amt_msat = v[2])
                  => ret.node_0 = v[3]

\* A payment of 354,001 msat that keeps its output and one of 1,999 msat back
\* that is trimmed: 1 msat + 1,999 msat + the two remainders make 3 sat.
C27_Witness ==
    /\ Called("p2a_value_test")
    /\ args.node_0_1_amt_msat = <<354001>>
    /\ args.node_1_0_amt_msat = <<1999>>
    /\ ret.result = "Ok"
    /\ Len(ret.node_0_tx.nondust_htlcs) = 1
    /\ Len(ret.node_1_tx.nondust_htlcs) = 1
    /\ ret.node_0 = 3
    /\ ret.node_1 = 3

(***************************************************************************)
(* The properties of the claims of many HTLCs at once.                     *)
(***************************************************************************)

\* The handler of the test has broadcast transactions.
ClaimsBroadcast == Called("test_htlc_claim_chunking") /\ ret.handled > 0

\* The inputs of the transactions last broadcast, in their order.
InputsBroadcast == [i \in 1..Len(ret.txn_broadcast) |-> ret.txn_broadcast[i].input]

\* The transactions last broadcast that claim an HTLC.
ChunksClaiming(htlc) == { i \in 1..Len(ret.txn_broadcast) : htlc \in ret.txn_broadcast[i].htlcs }

\* The 75 HTLCs of the test, 60 inputs at most in a transaction.
AsInTheTest == args.htlcs = 75 /\ args.max_inputs = 60

\* Every transaction broadcast is within the maximum, has as many outputs as
\* inputs, and spends the one commitment transaction; every HTLC still to
\* claim is claimed by exactly one of them, and no HTLC by two.
ChunksWithinMaximum ==
    /\ \A i \in 1..Len(ret.txn_broadcast) :
          /\ ret.txn_broadcast[i].input <= args.max_inputs
          /\ ret.txn_broadcast[i].output = ret.txn_broadcast[i].input
          /\ ret.txn_broadcast[i].spends = args.commit_tx
    /\ \A htlc \in ret.unresolved : Cardinality(ChunksClaiming(htlc)) = 1
    /\ \A htlc \in 1..args.htlcs : Cardinality(ChunksClaiming(htlc)) <= 1

\* The transactions of the first broadcast of the test have 60 and 17 inputs;
\* once the first of them is mined, the one with 17 is all that is broadcast.
SixtyAndSeventeen ==
    /\ (ret.handled = 1) => InputsBroadcast = <<60, 17>>
    /\ (ret.handled = 2 /\ ret.events = 0 /\ ret.mined = {1..59}) => InputsBroadcast = <<17>>

\* Once a transaction is mined, what is broadcast next claims none of its HTLCs.
OnlyTheRestRebroadcast ==
    (ret.events = 0 /\ ret.handled = Cardinality(ret.mined) + 1) =>
        \A htlcs \in ret.mined : \A htlc \in htlcs : ChunksClaiming(htlc) = {}

SigningCallOf ==
    [spend_justice_revoked_output |-> "sign_justice_revoked_output",
     spend_justice_revoked_htlc |-> "sign_justice_revoked_htlc",
     spend_counterparty_htlc_output |-> "sign_counterparty_htlc_transaction"]

\* A builder has returned, and `call` is its call of the signer.
BuilderReturned ==
    /\ args.fn \in DOMAIN SigningCallOf
    /\ call.method = SigningCallOf[args.fn]

WitnessProduced == BuilderReturned /\ "witness" \in DOMAIN ret

\* C29: in each of the three witness builders, when the signing call declines
\* (returns Err, as it does when the operation is disabled on the signer) the
\* builder returns Err and produces no witness; it returns a witness only
\* when the signing call succeeded.
C29_SignerDeclinesNoWitness ==
    BuilderReturned =>
        /\ (SignerOpOf[call.method] \in call.pre.disabled_signer_ops) => call.result = "Err"
        /\ (call.result = "Err") => (ret.result = "Err" /\ ~WitnessProduced)
        /\ WitnessProduced => (call.result = "Ok" /\ ret.result = "Ok")

\* The penalty on a revoked output is asked for while SignJusticeRevokedOutput
\* is disabled.
C29_Witness ==
    /\ BuilderReturned
    /\ args.fn = "spend_justice_revoked_output"
    /\ "SignJusticeRevokedOutput" \in call.pre.disabled_signer_ops
    /\ call.result = "Err"
    /\ ret.result = "Err"
    /\ ~WitnessProduced

\* The first element of a witness: a signature of the method the builder
\* calls, with the sighash type ALL.
IsSignatureOf(element, method) ==
    /\ DOMAIN element = {"signature", "sighash_type"}
    /\ element.signature.method = method
    /\ element.sighash_type = "SIGHASH_ALL"

\* The revocation public key of the commitment the per-commitment key is of:
\* of the revocation base point of the holder, who countersigned.
RevocationPublicKey(per_commitment_key) ==
    [pubkeys |-> "holder_pubkeys", basepoint |-> "revocation_basepoint",
     per_commitment_point |-> [public_key_of |-> per_commitment_key]]

IsScript(element, scripts) ==
    /\ "script" \in DOMAIN element
    /\ element.script \in scripts

\* C30: every witness produced has exactly three elements in a fixed order:
\* [signature, the single byte 1, script] for a revoked-output penalty;
\* [signature, revocation public key, script] for a revoked-HTLC penalty;
\* [signature, preimage, script] for a counterparty-HTLC claim when a preimage
\* is given, and [signature, empty element, script] when none is given.
C30_WitnessElements ==
    WitnessProduced =>
        /\ Len(ret.witness) = 3
        /\ IsSignatureOf(ret.witness[1], SigningCallOf[args.fn])
        /\ (args.fn = "spend_justice_revoked_output") =>
              /\ ret.witness[2] = <<1>>
              /\ IsScript(ret.witness[3], {"revokeable"})
        /\ (args.fn = "spend_justice_revoked_htlc") =>
              /\ ret.witness[2] = RevocationPublicKey(args.per_commitment_key)
              /\ IsScript(ret.witness[3], {"offered_htlc", "received_htlc"})
              /\ ret.witness[3].htlc = args.htlc
        /\ (args.fn = "spend_counterparty_htlc_output") =>
              /\ ret.witness[2] = (IF args.preimage.some THEN args.preimage.v ELSE <<>>)
              /\ IsScript(ret.witness[3], {"offered_htlc", "received_htlc"})
              /\ ret.witness[3].htlc = args.htlc

\* The timeout of a counterparty HTLC: no preimage given, the second element
\* is empty.
C30_Witness ==
    /\ WitnessProduced
    /\ args.fn = "spend_counterparty_htlc_output"
    /\ ~args.preimage.some
    /\ Len(ret.witness) = 3
    /\ ret.witness[2] = <<>>
    /\ IsScript(ret.witness[3], {"offered_htlc", "received_htlc"})

(***************************************************************************)
(* The properties of finalize_input.  `args` is the call, `ret` what it    *)
(* returned, the transaction as it left it and, in ret.signed, what the    *)
(* signer returned to it.                                                  *)
(***************************************************************************)

Finalized == args.fn = "finalize_input" /\ ret.result = "Ok"

PenaltyClaim == args.claim.kind \in {"RevokedOutput", "RevokedHTLCOutput"}

CounterpartyHtlcClaim ==
    args.claim.kind \in {"CounterpartyOfferedHTLCOutput", "CounterpartyReceivedHTLCOutput"}

\* The witness of input j before the call and after it.
WitnessBefore(j) == args.bumped_tx.input[j].witness

WitnessAfter(j) == ret.bumped_tx.input[j].witness

\* The witness of input i after the call is one built for the claim by the
\* call: the signature of the method of the claim on what the claim names,
\* the element of the claim and a script.
WitnessOfThisCall ==
    /\ args.i \in DOMAIN ret.bumped_tx.input
    /\ Len(WitnessAfter(args.i)) = 3
    /\ IsSignatureOf(WitnessAfter(args.i)[1], SigningCallOfClaim(args.claim))
    /\ WitnessAfter(args.i)[2] =
          (IF args.claim.kind = "RevokedOutput" THEN <<1>>
           ELSE IF args.claim.kind = "RevokedHTLCOutput"
           THEN RevocationPublicKey(args.claim.per_commitment_key)
           ELSE IF args.claim.kind = "CounterpartyOfferedHTLCOutput" THEN args.claim.preimage
           ELSE <<>>)
    /\ "script" \in DOMAIN WitnessAfter(args.i)[3]

OnlyInputChanged ==
    /\ DOMAIN ret.bumped_tx.input = DOMAIN args.bumped_tx.input
    /\ \A j \in DOMAIN args.bumped_tx.input : j # args.i => WitnessAfter(j) = WitnessBefore(j)

\* C31: finalize_input treats a signing failure as fatal for the two penalty
\* paths and as tolerable for the counterparty-HTLC path: for a RevokedOutput
\* or RevokedHTLCOutput claim whose signing fails it returns false and leaves
\* the witnesses unchanged; for a CounterpartyOfferedHTLCOutput or
\* CounterpartyReceivedHTLCOutput claim whose signing fails it returns true
\* and leaves the witnesses unchanged; on signing success, for all four
\* kinds, it sets only input i's witness and returns true.
C31_FatalAndTolerableFailures ==
    Finalized =>
        /\ (PenaltyClaim /\ ret.signed = "Err") =>
              (ret.value = FALSE /\ ret.bumped_tx = args.bumped_tx)
        /\ (CounterpartyHtlcClaim /\ ret.signed = "Err") =>
              (ret.value = TRUE /\ ret.bumped_tx = args.bumped_tx)
        /\ (ret.signed = "Ok") =>
              (ret.value = TRUE /\ WitnessOfThisCall /\ OnlyInputChanged)
        /\ ret.signed \in {"Ok", "Err"}

\* The penalty on a revoked output is refused for the second input of a
\* transaction whose first input has its witness: false, and nothing changed.
C31_Witness ==
    /\ Finalized
    /\ PenaltyClaim
    /\ ret.signed = "Err"
    /\ ret.value = FALSE
    /\ args.i = 2
    /\ WitnessBefore(1) # <<>>
    /\ ret.bumped_tx = args.bumped_tx

\* C32, as first stated: whenever finalize_input returns true for input i,
\* input i carries a witness produced by that call.
C32_TrueOnlyWithWitness ==
    (Finalized /\ ret.value = TRUE) =>
        (ret.signed = "Ok" /\ WitnessOfThisCall)

\* C32: a signing refusal never yields a witness: whenever finalize_input
\* returns true for input i, either input i carries a witness produced by
\* that call, or the claim is one of an HTLC of the counterparty whose signing
\* was refused and the witnesses are as they were handed over; an input whose
\* signing was refused and that had no witness has none after the call, so a
\* caller can tell it by that and drop it.
C32_RefusalLeavesNoWitness ==
    Finalized =>
        /\ (ret.value = TRUE) =>
              \/ ret.signed = "Ok" /\ WitnessOfThisCall
              \/ CounterpartyHtlcClaim /\ ret.signed = "Err"
                    /\ ret.bumped_tx = args.bumped_tx
        /\ (ret.signed = "Err" /\ args.i \in DOMAIN args.bumped_tx.input
                /\ WitnessBefore(args.i) = <<>>) => WitnessAfter(args.i) = <<>>

\* The claim of an HTLC the counterparty offered is refused: true is
\* returned and the input has no witness.
C32_Witness ==
    /\ Finalized
    /\ args.claim.kind = "CounterpartyOfferedHTLCOutput"
    /\ ret.signed = "Err"
    /\ ret.value = TRUE
    /\ args.i \in DOMAIN args.bumped_tx.input
    /\ WitnessAfter(args.i) = <<>>

(***************************************************************************)
(* The properties of a function of the builder called twice.               *)
(***************************************************************************)

CalledTwice == ret.result = "twice"

\* A step in which a function of the builder returns.
BuilderReturns == ret' # ret

BroadcastableCounterpartyCommitments ==
    state.last_counterparty_revoked_commitment - state.last_counterparty_commitment

\* C34: in every state reached by calls of sign_counterparty_commitment and
\* validate_counterparty_revocation, last_counterparty_commitment is at least
\* last_counterparty_revoked_commitment - 2: at most two signed counterparty
\* commitments are unrevoked.
C34_AtMostTwoBroadcastable ==
    /\ state.last_counterparty_commitment >= state.last_counterparty_revoked_commitment - 2
    /\ BroadcastableCounterpartyCommitments <= 2

\* Two commitments signed beyond a revocation the signer has validated, the
\* second of them by the last call.
C34_Witness ==
    /\ call # NoCall
    /\ call.method = "sign_counterparty_commitment"
    /\ call.result = "Ok"
    /\ call.pre.last_counterparty_commitment = state.last_counterparty_commitment + 1
    /\ state.last_counterparty_revoked_commitment < INITIAL_REVOKED_COMMITMENT_NUMBER
    /\ BroadcastableCounterpartyCommitments = 2

(***************************************************************************)
(* The properties of the balances before the fee.  The holder is the party *)
(* whose balance the builder is handed (value_to_holder_msat,              *)
(* value_to_self_msat); an HTLC is offered by the holder when it is        *)
(* outbound, which for build_commitment_transaction is offered = local.    *)
(***************************************************************************)

StatsReturned == args.fn = "get_next_commitment_stats" /\ ret.result = "Ok"

BuildReturned == args.fn = "build_commitment_transaction" /\ ret.result = "Ok"

\* The HTLCs of the call, as amount and offered-by-the-holder.
PendingHtlcs ==
    IF args.fn = "get_next_commitment_stats"
    THEN [ i \in DOMAIN args.next_commitment_htlcs |->
            [amount_msat |-> args.next_commitment_htlcs[i].amount_msat,
             by_holder |-> args.next_commitment_htlcs[i].outbound] ]
    ELSE [ i \in DOMAIN args.htlcs_in_tx |->
            [amount_msat |-> args.htlcs_in_tx[i].amount_msat,
             by_holder |-> args.htlcs_in_tx[i].offered = args.local] ]

\* The raw amounts of all the HTLCs one party offered, dust or not.
OfferedMsat(by_holder) ==
    LET offered(htlc) == htlc.by_holder = by_holder
    IN  SumAmounts(SelectSeq(PendingHtlcs, offered))

RawHolderMsat ==
    IF args.fn = "get_next_commitment_stats" THEN args.value_to_holder_msat
    ELSE args.value_to_self_msat

RawCounterpartyMsat ==
    IF args.fn = "get_next_commitment_stats"
    THEN args.channel_value_satoshis * 1000 - args.value_to_holder_msat
    ELSE args.channel_parameters.channel_value_satoshis * 1000 - args.value_to_self_msat

HolderBeforeFeeMsat ==
    IF args.fn = "get_next_commitment_stats" THEN ret.holder_balance_before_fee_msat
    ELSE ret.stats.local_balance_before_fee_msat

CounterpartyBeforeFeeMsat ==
    IF args.fn = "get_next_commitment_stats" THEN ret.counterparty_balance_before_fee_msat
    ELSE ret.stats.remote_balance_before_fee_msat

HolderFunds ==
    IF args.fn = "get_next_commitment_stats" THEN args.is_outbound_from_holder
    ELSE args.channel_parameters.is_outbound_from_holder

\* The two anchors the funder of a channel with anchor outputs pays for.
AnchorsMsat(funder) ==
    LET channel_type == IF args.fn = "get_next_commitment_stats" THEN args.channel_type
                        ELSE args.channel_parameters.channel_type_features
    IN  IF funder /\ supports_anchors_zero_fee_htlc_tx(channel_type)
        THEN ANCHOR_OUTPUT_VALUE_SATOSHI * 2 * 1000 ELSE 0

\* The call was handed an HTLC that is dust on the commitment.
SomeDustHtlc ==
    \/ /\ args.fn = "build_commitment_transaction"
       /\ Len(ret.tx.nondust_htlcs) < Len(args.htlcs_in_tx)
    \/ /\ args.fn = "get_next_commitment_stats"
       /\ ret.nondust_htlc_count < Len(args.next_commitment_htlcs)

\* C35, as stated: in get_next_commitment_stats and build_commitment_transaction
\* the balance of each party before the fee is its raw balance less the raw
\* amounts of all the pending HTLCs it offered, dust or not.
C35_BalanceLessOfferedHtlcs ==
    StatsReturned \/ BuildReturned =>
        /\ HolderBeforeFeeMsat = RawHolderMsat - OfferedMsat(TRUE)
        /\ CounterpartyBeforeFeeMsat = RawCounterpartyMsat - OfferedMsat(FALSE)

\* C35, amended: the balance of each party before the fee is its raw balance
\* less the raw amounts of all the pending HTLCs it offered, dust or not, and,
\* for the funder of a channel with anchor outputs, less the two anchors.
C35_BalanceLessOfferedHtlcsAndAnchors ==
    StatsReturned \/ BuildReturned =>
        /\ HolderBeforeFeeMsat =
              RawHolderMsat - OfferedMsat(TRUE) - AnchorsMsat(HolderFunds)
        /\ CounterpartyBeforeFeeMsat =
              RawCounterpartyMsat - OfferedMsat(FALSE) - AnchorsMsat(~HolderFunds)

\* A commitment transaction built with an HTLC of the holder trimmed as dust
\* and an HTLC of the counterparty kept, in a channel with anchor outputs the
\* holder funds: the balance of the holder is less by the HTLC and the anchors.
C35_Witness ==
    /\ BuildReturned
    /\ SomeDustHtlc
    /\ \E i \in DOMAIN args.htlcs_in_tx :
          /\ args.htlcs_in_tx[i].offered = args.local
          /\ is_dust(args.htlcs_in_tx[i].offered, args.htlcs_in_tx[i].amount_msat,
                     args.feerate_per_kw, args.broadcaster_dust_limit_satoshis,
                     args.channel_parameters.channel_type_features)
    /\ OfferedMsat(FALSE) > 0
    /\ AnchorsMsat(HolderFunds) > 0
    /\ HolderBeforeFeeMsat < RawHolderMsat - OfferedMsat(TRUE)

\* The HTLCs of the next commitment that are not dust at feerate_per_kw under
\* the dust limit of the broadcaster.
NonDustAtFeerate ==
    LET nondust(htlc) ==
            htlc.amount_msat \div 1000 >=
                args.broadcaster_dust_limit_satoshis
                    + FeeContribution(args.channel_type, args.feerate_per_kw,
                                      htlc.outbound = args.local)
    IN  SelectSeq(args.next_commitment_htlcs, nondust)

\* What of the statistics is neither the count of non-dust HTLCs nor the fee.
StatsBesidesFee(stats) ==
    [ f \in DOMAIN stats \ {"nondust_htlc_count", "commit_tx_fee_sat"} |-> stats[f] ]

\* C36: get_next_commitment_stats returns as nondust_htlc_count the number of
\* HTLCs that are not dust at feerate_per_kw under the broadcaster's dust limit
\* plus addl_nondust_htlc_count, and as commit_tx_fee_sat the fee of that many
\* HTLCs; the balances, the count and value of the inbound HTLCs and both dust
\* exposures are the same whatever addl_nondust_htlc_count is.
C36_AddlHtlcsInCountAndFeeOnly ==
    Returned("get_next_commitment_stats") =>
        /\ ret.nondust_htlc_count =
              Len(NonDustAtFeerate) + args.addl_nondust_htlc_count
        /\ ret.commit_tx_fee_sat =
              commit_tx_fee_sat(args.feerate_per_kw, ret.nondust_htlc_count,
                                args.channel_type)
        /\ \A n \in 0..(MaxAddlHtlcs + 1) :
              /\ StatsWithAddl(n).result = "Ok"
              /\ StatsBesidesFee(StatsWithAddl(n)) = StatsBesidesFee(ret)

\* Statistics with a dust HTLC, a non-dust HTLC and additional HTLCs asked
\* for, the fee above the fee of the non-dust HTLC alone.
C36_Witness ==
    /\ Returned("get_next_commitment_stats")
    /\ args.addl_nondust_htlc_count >= 1
    /\ Len(NonDustAtFeerate) >= 1
    /\ Len(NonDustAtFeerate) < Len(args.next_commitment_htlcs)
    /\ ret.nondust_htlc_count > Len(NonDustAtFeerate)
    /\ ret.commit_tx_fee_sat >
          commit_tx_fee_sat(args.feerate_per_kw, Len(NonDustAtFeerate), args.channel_type)

(***************************************************************************)
(* The properties of the candidate limit: available_capacity_msat once the *)
(* fee of the commitment is minded (tx_builder.rs l.232-272).              *)
(***************************************************************************)

\* The HTLCs the fee is reserved for besides those pending: the one to send,
\* and one more as a buffer unless the commitments are zero-fee.
ReservedHtlcs(with_the_one_to_send) ==
    (IF args.channel_type.anchor_zero_fee_commitments THEN 0 ELSE 1)
        + (IF with_the_one_to_send THEN 1 ELSE 0)

\* The fee reserved on the commitment of the holder, in msat: doubled against
\* a fee spike unless the HTLC transactions are zero-fee.
ReservedFeeMsat(with_the_one_to_send) ==
    EstimatorStats(TRUE, ReservedHtlcs(with_the_one_to_send)).commit_tx_fee_sat * 1000
        * (IF args.channel_type.anchors_zero_fee_htlc_tx THEN 1
           ELSE FEE_SPIKE_BUFFER_FEE_INCREASE_MULTIPLE)

\* (HTLC-timeout fee + holder dust limit) * 1000 and (HTLC-success fee +
\* counterparty dust limit) * 1000, at the feerate of the call.
TimeoutDustThresholdMsat ==
    (FeeContribution(args.channel_type, args.feerate_per_kw, TRUE)
        + args.holder_channel_constraints.dust_limit_satoshis) * 1000

SuccessDustThresholdMsat ==
    (FeeContribution(args.channel_type, args.feerate_per_kw, FALSE)
        + args.counterparty_channel_constraints.dust_limit_satoshis) * 1000

\* The counterparty funds the channel and its balance before the fee is below
\* the fee with one more HTLC plus the reserve the holder selected.
CounterpartyBelowReserve ==
    /\ ~args.is_outbound_from_holder
    /\ EstimatorStats(FALSE, 1).counterparty_balance_before_fee_msat
          < EstimatorStats(FALSE, 1).commit_tx_fee_sat * 1000
              + args.counterparty_channel_constraints.channel_reserve_satoshis * 1000

\* The candidate limit of a channel the holder funds, as the claim has it.
HolderFundedCandidateMsat ==
    LET capacity == ret.outbound_capacity_msat
        remainder == saturating_sub(capacity, ReservedFeeMsat(TRUE))
    IN  IF remainder < TimeoutDustThresholdMsat
        THEN cmp_min(TimeoutDustThresholdMsat - 1,
                     saturating_sub(capacity, ReservedFeeMsat(FALSE)))
        ELSE remainder

\* C37 as stated: when the holder funds the channel the candidate limit is the
\* capacity less the worst-case reserved fee, or, that being below (HTLC-timeout
\* fee + holder dust limit) * 1000, the smaller of that threshold less 1 msat
\* and the capacity less the smaller reserved fee; when the counterparty funds
\* it and its balance is below the fee for one more HTLC plus the reserve, the
\* candidate limit is at most (HTLC-success fee + counterparty dust limit) *
\* 1000 - 1 msat.
C37_CandidateLimit ==
    Returned("get_available_balances") =>
        /\ args.is_outbound_from_holder =>
              ret.capacity_after_fee_msat = HolderFundedCandidateMsat
        /\ CounterpartyBelowReserve =>
              ret.capacity_after_fee_msat <= SuccessDustThresholdMsat - 1

\* The same but for the calls in which the HTLC-success fee and the dust limit
\* of the counterparty are both 0.
CandidateLimitAboveNoDust ==
    (Returned("get_available_balances") /\ SuccessDustThresholdMsat > 0) =>
        /\ args.is_outbound_from_holder =>
              ret.capacity_after_fee_msat = HolderFundedCandidateMsat
        /\ CounterpartyBelowReserve =>
              ret.capacity_after_fee_msat =
                  cmp_min(ret.outbound_capacity_msat, SuccessDustThresholdMsat - 1)

(***************************************************************************)
(* The properties of the dust exposure in the statistics of the next       *)
(* commitment.                                                             *)
(***************************************************************************)

\* An HTLC of the call is dust on the commitment at a feerate: its amount in
\* sat is below the dust limit of the broadcaster plus the fee of its
\* second-stage transaction, HTLC-timeout when the broadcaster offered it.
StatsDustAt(htlc, feerate_per_kw) ==
    htlc.amount_msat \div 1000 <
        args.broadcaster_dust_limit_satoshis
            + FeeContribution(args.channel_type, feerate_per_kw, htlc.outbound = args.local)

\* The dust buffer feerate of the call: the feerate and the larger of 2530 and
\* of a quarter of it (no feerate drawn for the statistics is near u32::MAX).
StatsBufferFeerate == args.feerate_per_kw + BufferAboveFeerate

\* The amounts of the HTLCs that are dust at the dust buffer feerate.
DustAtBufferMsat ==
    LET dust(htlc) == StatsDustAt(htlc, StatsBufferFeerate)
    IN  SumAmounts(SelectSeq(args.next_commitment_htlcs, dust))

\* The amounts of the HTLCs that are dust at the feerate of the commitment.
DustAtFeerateMsat ==
    LET dust(htlc) == StatsDustAt(htlc, args.feerate_per_kw)
    IN  SumAmounts(SelectSeq(args.next_commitment_htlcs, dust))

\* What the feerate is above dust_exposure_limiting_feerate.
StatsExcessFeerate ==
    IF args.dust_exposure_limiting_feerate.some
          /\ args.feerate_per_kw > args.dust_exposure_limiting_feerate.v
    THEN args.feerate_per_kw - args.dust_exposure_limiting_feerate.v
    ELSE 0

\* The fee of the commitment and of the second-stage transactions of the HTLCs
\* that are not dust at the dust buffer feerate, with `extra` more HTLCs the
\* broadcaster accepts, at the excess feerate, in msat.
ExcessFeesMsat(extra) ==
    LET accepted(htlc) == htlc.outbound # args.local /\ ~StatsDustAt(htlc, StatsBufferFeerate)
        offered(htlc) == htlc.outbound = args.local /\ ~StatsDustAt(htlc, StatsBufferFeerate)
        num_accepted == Len(SelectSeq(args.next_commitment_htlcs, accepted)) + extra
        num_offered == Len(SelectSeq(args.next_commitment_htlcs, offered))
    IN  ( commit_tx_fee_sat(StatsExcessFeerate, num_accepted + num_offered, args.channel_type)
            + num_accepted * FeeContribution(args.channel_type, StatsExcessFeerate, FALSE)
            + num_offered * FeeContribution(args.channel_type, StatsExcessFeerate, TRUE) )
        * 1000

\* C38: dust_exposure_msat is the sum of the amounts of exactly the HTLCs that
\* are dust at the dust buffer feerate, among them every HTLC that is dust at
\* the feerate of the commitment; on the holder's commitment
\* extra_accepted_htlc_dust_exposure_msat equals it; on the counterparty's
\* commitment both figures also hold the commitment and second-stage fees at
\* the excess feerate, the second with one more accepted HTLC, and the second
\* is not below the first.
C38_DustExposureAtBufferFeerate ==
    Returned("get_next_commitment_stats") =>
        /\ \A i \in DOMAIN args.next_commitment_htlcs :
              StatsDustAt(args.next_commitment_htlcs[i], args.feerate_per_kw)
                  => StatsDustAt(args.next_commitment_htlcs[i], StatsBufferFeerate)
        /\ args.local =>
              /\ ret.dust_exposure_msat = DustAtBufferMsat
              /\ ret.extra_accepted_htlc_dust_exposure_msat = ret.dust_exposure_msat
        /\ ~args.local =>
              /\ ret.dust_exposure_msat = DustAtBufferMsat + ExcessFeesMsat(0)
              /\ ret.extra_accepted_htlc_dust_exposure_msat =
                    DustAtBufferMsat + ExcessFeesMsat(1)
              /\ ret.extra_accepted_htlc_dust_exposure_msat >= ret.dust_exposure_msat

\* The statistics of a commitment of the counterparty with an HTLC that is
\* dust at the dust buffer feerate only and a feerate above the limiting one:
\* the HTLC is in the exposure, with the fees at the excess feerate, and one
\* more accepted HTLC adds to them.
C38_Witness ==
    /\ Returned("get_next_commitment_stats")
    /\ ~args.local
    /\ DustAtBufferMsat > DustAtFeerateMsat
    /\ StatsExcessFeerate > 0
    /\ ExcessFeesMsat(0) > 0
    /\ ret.dust_exposure_msat > DustAtBufferMsat
    /\ ret.extra_accepted_htlc_dust_exposure_msat > ret.dust_exposure_msat

(***************************************************************************)
(* The frame of the methods of the signer.                                 *)
(***************************************************************************)

\* The counter a method assigns.
OwnCounter ==
    [ release_commitment_secret |-> "last_holder_revoked_commitment",
      validate_holder_commitment |-> "last_holder_commitment",
      validate_counterparty_revocation |-> "last_counterparty_revoked_commitment",
      sign_counterparty_commitment |-> "last_counterparty_commitment" ]

\* The counters the last call left as they were at its entry.
CountersKept == { f \in CounterFields : state[f] = call.pre[f] }

\* The last call was a method of the signer, not one of the two test switches.
MethodCalled == call.method \notin {"none", "disable_op", "enable_op"}

\* C39 as stated: the methods that assign no counter, and every call that
\* returns Err, leave the four counters as they were; each of
\* release_commitment_secret, validate_holder_commitment,
\* validate_counterparty_revocation and sign_counterparty_commitment changes at
\* most its own counter and leaves the other three and disabled_signer_ops.
C39_Frame ==
    MethodCalled =>
        /\ call.method \notin DOMAIN OwnCounter => CountersKept = CounterFields
        /\ call.result = "Err" => CountersKept = CounterFields
        /\ call.method \in DOMAIN OwnCounter =>
              CounterFields \ {OwnCounter[call.method]} \subseteq CountersKept
        /\ state.disabled_signer_ops = call.pre.disabled_signer_ops

\* The same but for the Err the wrapped signer returns to
\* release_commitment_secret.
FrameButRefusedSecret ==
    MethodCalled =>
        /\ call.method \notin DOMAIN OwnCounter => CountersKept = CounterFields
        /\ (call.result = "Err" /\ ~call.inner_called) => CountersKept = CounterFields
        /\ (call.result = "Err" /\ call.inner_called /\ CountersKept # CounterFields) =>
              call.method = "release_commitment_secret"
        /\ call.method \in DOMAIN OwnCounter =>
              CounterFields \ {OwnCounter[call.method]} \subseteq CountersKept
        /\ state.disabled_signer_ops = call.pre.disabled_signer_ops

(***************************************************************************)
(* The properties of the balances get_available_balances returns.          *)
(***************************************************************************)

\* The balance of the funder of the call is less by the two anchors.
LessAnchorsMsat(balance_msat, funder) ==
    IF funder THEN balance_msat - EstimatorAnchorsMsat ELSE balance_msat

\* The balances before the fee: what each party has after the pending HTLCs
\* it offered and, for the funder, the anchors.
HolderPreFeeMsat ==
    LessAnchorsMsat(args.value_to_holder_msat - PendingOutboundMsat,
                    args.is_outbound_from_holder)

CounterpartyPreFeeMsat ==
    LessAnchorsMsat(args.channel_value_satoshis * 1000 - args.value_to_holder_msat
                        - PendingInboundMsat,
                    ~args.is_outbound_from_holder)

\* a - b, and 0 when b is the larger
LessOrNothing(a, b) == IF a > b THEN a - b ELSE 0

\* C40: whenever get_available_balances returns, next_outbound_htlc_limit_msat
\* is at most outbound_capacity_msat, next_outbound_htlc_minimum_msat is at
\* least the counterparty's htlc_minimum_msat, outbound_capacity_msat is the
\* holder's balance before the fee less the holder's reserve, and
\* inbound_capacity_msat the counterparty's balance before the fee less the
\* reserve on its side, each 0 when the reserve is the larger.
C40_AvailableBalances ==
    Returned("get_available_balances") =>
        /\ ret.next_outbound_htlc_limit_msat <= ret.outbound_capacity_msat
        /\ ret.next_outbound_htlc_minimum_msat
              >= args.counterparty_channel_constraints.htlc_minimum_msat
        /\ ret.outbound_capacity_msat =
              LessOrNothing(HolderPreFeeMsat,
                  args.holder_channel_constraints.channel_reserve_satoshis * 1000)
        /\ ret.inbound_capacity_msat =
              LessOrNothing(CounterpartyPreFeeMsat,
                  args.counterparty_channel_constraints.channel_reserve_satoshis * 1000)

\* A call on a channel the holder funds, with HTLCs pending both ways and
\* reserves to keep: the limit is right below dust, above nothing and below
\* the capacity, and the counterparty can send too.
C40_Witness ==
    /\ Returned("get_available_balances")
    /\ args.is_outbound_from_holder
    /\ PendingOutboundMsat > 0
    /\ PendingInboundMsat > 0
    /\ args.holder_channel_constraints.channel_reserve_satoshis > 0
    /\ ret.next_outbound_htlc_limit_msat > 0
    /\ ret.next_outbound_htlc_limit_msat < ret.outbound_capacity_msat
    /\ ret.outbound_capacity_msat < HolderPreFeeMsat
    /\ ret.inbound_capacity_msat > 0

====
